---- MODULE Spec2Model ----
(***************************************************************************)
(* Model of the relay fan-out engine of Imprint                            *)
(* (src/app/nostr/relay_client.py): RelayBackoff, _TTLCache and            *)
(* RelayClient.publish_event / _send_event / fetch_events / _fetch,        *)
(* and of what is built on it: nostr/event.py, comments/service.py,        *)
(* services/engagement.py, services/essays.py and the essay routes of      *)
(* main.py.                                                                *)
(*                                                                         *)
(* One action is one run of a coroutine between two suspension points of   *)
(* the asyncio event loop.  The relays (the websockets peer) are the       *)
(* environment: every way a connect, send or receive can end is a          *)
(* separate action.  PYTEST_CURRENT_TEST (_should_skip) is taken as unset, *)
(* which is the case outside the test runner.                              *)
(***************************************************************************)
EXTENDS Integers, Sequences, FiniteSets, TLC

VARIABLES
    now,            \* time.time(), whole seconds
    cooldowns,      \* RelayBackoff.cooldowns      relay -> expiry
    failure_count,  \* RelayBackoff.failure_count  relay -> streak
    store,          \* _TTLCache._store            key -> entry
    sem,            \* RelayClient._sem            free permits
    max_concurrent, \* RelayClient.__init__ max_concurrent
    max_reads,      \* RelayClient.max_reads
    max_writes,     \* RelayClient.max_writes
    calls,          \* publish_event / fetch_events calls made so far
    pubsDone,       \* history: number of publish_event calls that returned
    failRun,        \* history: record_failure calls since the last record_success
    lastFailAt,     \* history: time of the latest record_failure
    event,          \* nostr/event.py: the event dict at hand
    verdict,        \* nostr/event.py: what verify_event(event) did
    made,           \* history: how the event at hand was made
    relay_notes,    \* kind 1 events the relays hold for the essay
    relay_deletions,\* kind 5 events the relays hold
    cache_rows,     \* db/models.py CommentCache rows, oldest first
    user_blocks,    \* db/models.py UserBlock rows <<owner, blocked>>
    comment_cache,  \* comments/service.py CommentCache._store, by viewer
    thread,         \* what the latest fetch_comments_for_essay returned
    built,          \* history: what that thread was built from
    relay_receipts, \* kind 7 and kind 9735 events the relays hold
    likes,          \* services/engagement.py _likes[essay]
    zaps,           \* services/engagement.py _zaps[essay]
    hydrating,      \* hydrate_from_relays calls waiting for fetch_events
    essay_versions, \* db/models.py EssayVersion rows, by event id
    published,      \* history: events handed to relay_client.publish_event
    outcome,        \* history: the latest operation and how it ended
    essays,         \* db/models.py Essay rows, by identifier
    version_rows,   \* db/models.py EssayVersion rows, oldest first
    drafts,         \* db/models.py Draft rows, by id
    request         \* history: the latest essay or draft request and its answer

eventVars == <<event, verdict, made>>

commentVars == <<relay_notes, relay_deletions, cache_rows, user_blocks,
                 comment_cache, thread, built>>

engageVars == <<relay_receipts, likes, zaps, hydrating>>

writeVars == <<essay_versions, published, outcome>>

essayVars == <<essays, version_rows, drafts, request>>

appVars == <<eventVars, commentVars, engageVars, writeVars, essayVars>>

vars == <<now, cooldowns, failure_count, store, sem, max_concurrent,
          max_reads, max_writes, calls, pubsDone, failRun, lastFailAt,
          appVars>>

config == <<max_concurrent, max_reads, max_writes>>

----------------------------------------------------------------------------
(* Bounds of the model *)

MaxCalls == 2        \* calls made in one behaviour (Spec)
MaxTime == 20        \* the clock stops here (Spec)
MaxCallsC == 3       \* calls made in one behaviour (SpecCache)
MaxTimeC == 40       \* the clock stops here (SpecCache)
MaxCallsS == 2       \* calls made in one behaviour (SpecSem)
MaxEvents == 1       \* EVENT frames one relay sends on one subscription
MaxCallsR == 3       \* calls made in one behaviour (SpecRace)
MaxStreak == 7       \* record_failure calls in a row (SpecBackoff)
MaxTimeB == 4        \* the clock stops here (SpecBackoff)

(* The client under study: RelayClient(max_concurrent=1,                    *)
(* max_relays_for_reads=2, max_relays_for_writes=2), the defaults of 5      *)
(* scaled down to the relay lists below.                                    *)
ClientConfig == [max_concurrent |-> 1, max_reads |-> 2, max_writes |-> 2]

(* The same with room for one relay per call, for SpecCache *)
ClientConfigC == [max_concurrent |-> 1, max_reads |-> 1, max_writes |-> 1]

(* The request handlers that call the client; each awaits its call *)
Callers == {"a"}
CallersC == {"a", "b"}
CallersS == {"a", "b"}

(* Program constants *)
CacheTtl == 30
BaseDelay == 5
MaxDelay == 120

TickSteps == {20}

Relays == {"r1", "r2", "r3"}

(* The relay lists callers pass: one with a duplicate, one with a duplicate *)
(* and more distinct relays than the limits.                                *)
RelayLists ==
    { <<"r1", "r1", "r2">>, <<"r1", "r3", "r1", "r2">> }

(* The filter lists callers pass *)
FilterLists == { <<"fA">> }

(* SpecCache: one relay, two filter lists *)
RelayListsC == { <<"r1">> }

(* SpecSem: more tasks than permits *)
RelayListsS == { <<"r1", "r2">> }

FilterListsC == { <<"fA">>, <<"fB">> }

----------------------------------------------------------------------------
(* Helpers *)

Min(a, b) == IF a < b THEN a ELSE b

Range(s) == { s[i] : i \in DOMAIN s }

RECURSIVE Pow2(_)
Pow2(n) == IF n <= 0 THEN 1 ELSE 2 * Pow2(n - 1)

RECURSIVE Dedup(_)
(* list(dict.fromkeys(relays)): first occurrences, in order *)
Dedup(s) ==
    IF s = <<>> THEN <<>>
    ELSE LET firsts == Dedup(SubSeq(s, 1, Len(s) - 1))
             last == s[Len(s)]
         IN  IF last \in Range(firsts) THEN firsts ELSE Append(firsts, last)

Take(s, n) == SubSeq(s, 1, Min(n, Len(s)))

(* variant: the list is not cut at the limit *)
TargetsUntruncated(relays, limit) == Dedup(relays)

(* list(dict.fromkeys(relays))[: limit] *)
Targets(relays, limit) == Take(Dedup(relays), limit)

----------------------------------------------------------------------------
(* RelayBackoff *)

is_on_cooldown(relay) == cooldowns[relay] > now

(* variant: the delay doubles without the cap *)
BackoffDelayUncapped(failures) == BaseDelay * Pow2(failures - 1)

(* delay = min(120, 5 * (2 ** (failures - 1))) *)
BackoffDelay(failures) == Min(MaxDelay, BaseDelay * Pow2(failures - 1))

(* variant: the count written is the one read before a concurrent write *)
record_failure_lost_update(relay) ==
    LET failures == IF failure_count[relay] = 0 THEN 1 ELSE failure_count[relay]
    IN  /\ failure_count' = [failure_count EXCEPT ![relay] = failures]
        /\ cooldowns' = [cooldowns EXCEPT ![relay] = now + BackoffDelay(failures)]
        /\ failRun' = [failRun EXCEPT ![relay] = @ + 1]
        /\ lastFailAt' = [lastFailAt EXCEPT ![relay] = now]

record_failure(relay) ==
    LET failures == failure_count[relay] + 1
    IN  /\ failure_count' = [failure_count EXCEPT ![relay] = failures]
        /\ cooldowns' = [cooldowns EXCEPT ![relay] = now + BackoffDelay(failures)]
        /\ failRun' = [failRun EXCEPT ![relay] = @ + 1]
        /\ lastFailAt' = [lastFailAt EXCEPT ![relay] = now]

(* variant: the streak is reset and the cooldown is left to run out *)
record_success_keeps_cooldown(relay) ==
    /\ failure_count' = [failure_count EXCEPT ![relay] = 0]
    /\ cooldowns' = cooldowns
    /\ failRun' = [failRun EXCEPT ![relay] = 0]
    /\ UNCHANGED lastFailAt

record_success(relay) ==
    /\ failure_count' = [failure_count EXCEPT ![relay] = 0]
    /\ cooldowns' = [cooldowns EXCEPT ![relay] = 0]
    /\ failRun' = [failRun EXCEPT ![relay] = 0]
    /\ UNCHANGED lastFailAt

backoffVars == <<cooldowns, failure_count, failRun, lastFailAt>>

----------------------------------------------------------------------------
(* _TTLCache *)

(* variant: the key leaves the filters out *)
CacheKeyRelaysOnly(filters, relays) == << <<>>, Range(relays) >>

(* f"{json.dumps(filters, sort_keys=True)}|{','.join(sorted(set(relays)))}":  *)
(* the filter list in its order, and the set of the relays passed.           *)
CacheKey(filters, relays) == <<filters, Range(relays)>>

(* _TTLCache.get: the entry, unless absent or expired *)
CacheHit(key) == key \in DOMAIN store /\ ~(store[key].expires < now)

(* _TTLCache.get pops an expired entry *)
StoreAfterGet(key) ==
    IF key \in DOMAIN store /\ store[key].expires < now
    THEN [k \in DOMAIN store \ {key} |-> store[k]]
    ELSE store

(* _TTLCache.set *)
StoreAfterSet(key, value, filters, targets) ==
    [k \in DOMAIN store \cup {key} |->
        IF k = key
        THEN [expires |-> now + CacheTtl, value |-> value,
              epoch |-> pubsDone,     \* history: publishes returned so far
              filters |-> filters,    \* history: the filters value was asked with
              targets |-> targets]    \* history: the relays value was gathered from
        ELSE store[k]]

(* _TTLCache.invalidate(None): clear *)
StoreAfterInvalidate == << >>

----------------------------------------------------------------------------
(* State after construction *)

(* No event at hand *)
NoEvent == [x \in {} |-> ""]

NotMade == [by |-> "", change |-> "none", rehash |-> FALSE]

EventIdle ==
    /\ event = NoEvent
    /\ verdict = "none"
    /\ made = NotMade

(* No relay holds a comment, nothing is cached, nobody is blocked *)
NoThread == [roots |-> << >>, nodes |-> << >>]

NotBuilt ==
    [viewer |-> "", hit |-> FALSE, relay_events |-> << >>, events |-> << >>,
     deletions |-> << >>, blocked |-> {}, rows |-> << >>, committed |-> TRUE]

Viewers == {"V", "anon"}    \* "anon": viewer_pubkey is None

NoEntry == [expires_at |-> 0, value |-> NoThread]

CommentsIdle ==
    /\ relay_notes = << >>
    /\ relay_deletions = << >>
    /\ cache_rows = << >>
    /\ user_blocks = {}
    /\ comment_cache = [v \in Viewers |-> NoEntry]
    /\ thread = NoThread
    /\ built = NotBuilt

NoOutcome ==
    [op |-> "", session |-> "", raised |-> "none", status |-> 0,
     shape |-> "", expected |-> [sha256 |-> << >>]]

EngageIdle ==
    /\ relay_receipts = << >>
    /\ likes = {}
    /\ zaps = [count |-> 0, sats |-> 0]
    /\ hydrating = << >>

WriteIdle ==
    /\ essay_versions = {}
    /\ published = {}
    /\ outcome = NoOutcome

(* no request has been made: no essay, no version, no draft *)
NoRequest ==
    [op |-> "", by |-> "", identifier |-> "", draft_id |-> 0,
     event_id |-> << >>, status |-> 0, raised |-> "none", sent |-> FALSE]

Identifiers == {"I", "J"}

(* there is no Essay row of the identifier *)
NoEssay ==
    [author_pubkey |-> "", title |-> "", summary |-> "", latest_version |-> 0,
     latest_event_id |-> << >>]

EssaysIdle ==
    /\ essays = [identifier \in Identifiers |-> NoEssay]
    /\ version_rows = << >>
    /\ drafts = << >>
    /\ request = NoRequest

AppIdle == EventIdle /\ CommentsIdle /\ EngageIdle /\ WriteIdle /\ EssaysIdle

InitWith(cfg) ==
    /\ AppIdle
    /\ now = 0
    /\ cooldowns = [r \in Relays |-> 0]
    /\ failure_count = [r \in Relays |-> 0]
    /\ store = << >>
    /\ max_concurrent = cfg.max_concurrent
    /\ max_reads = cfg.max_reads
    /\ max_writes = cfg.max_writes
    /\ sem = cfg.max_concurrent
    /\ calls = << >>
    /\ pubsDone = 0
    /\ failRun = [r \in Relays |-> 0]
    /\ lastFailAt = [r \in Relays |-> 0]

clientVars == <<now, backoffVars, store, sem, config, calls, pubsDone>>

Init == InitWith(ClientConfig)

(* The wall clock advances *)
TickTo(maxTime) ==
    /\ \E d \in TickSteps : now + d <= maxTime /\ now' = now + d
    /\ UNCHANGED <<backoffVars, store, sem, config, calls, pubsDone, appVars>>

----------------------------------------------------------------------------
(* SpecBackoff: RelayBackoff on its own, any sequence of record_failure and *)
(* record_success calls, the clock advancing second by second.              *)

BRelays == {"r1"}

RecordFailureB ==
    \E r \in BRelays :
        /\ failRun[r] < MaxStreak
        /\ record_failure(r)
        /\ UNCHANGED <<now, store, sem, config, calls, pubsDone, appVars>>

RecordSuccessB ==
    \E r \in BRelays :
        /\ record_success(r)
        /\ UNCHANGED <<now, store, sem, config, calls, pubsDone, appVars>>

TickB ==
    /\ now < MaxTimeB
    /\ now' = now + 1
    /\ UNCHANGED <<backoffVars, store, sem, config, calls, pubsDone, appVars>>

NextB == RecordFailureB \/ RecordSuccessB \/ TickB

SpecBackoff == Init /\ [][NextB]_vars

----------------------------------------------------------------------------
(* RelayClient: the calls and the tasks they start, one per target *)

NewTask(relay) ==
    [relay |-> relay,
     pc |-> "new",        \* new, waitsem, connecting, receiving, done
     status |-> "",       \* ok, error, cooldown
     fault |-> "none",    \* the exception: connect, send, recv
     nrecv |-> 0,         \* EVENT frames appended by this task
     conns |-> 0,         \* history: websockets.connect calls made
     rec |-> "none",      \* history: record_success / record_failure applied
     wait |-> "none",     \* history: how the wait for frames ended
     cdSeen |-> FALSE]    \* history: the relay was on cooldown when tested

NoTasks == << >>

NoResults == [r \in {} |-> ""]

BlankCall ==
    [kind |-> "",            \* publish, fetch
     relays |-> << >>,       \* the relay list passed
     filters |-> << >>,      \* the filter list passed
     key |-> << >>,          \* fetch: cache_key
     targets |-> << >>,      \* targets
     pc |-> "running",       \* running, done, archived
     tasks |-> NoTasks,      \* send_tasks / the _fetch coroutines
     skipped |-> {},         \* publish: relays given "cooldown"
     results |-> NoResults,  \* publish: the map returned
     events |-> << >>,       \* fetch: events, the list returned
     hit |-> FALSE,          \* fetch: served from the cache
     cdAtCall |-> {},        \* history: relays of the list on cooldown at the call
     stale |-> FALSE,        \* history: the entry served predates a publish return
     entryExpires |-> 0,     \* history: expiry of the entry stored or served
     pubSince |-> FALSE,     \* history: a publish started or returned since
     overwritten |-> FALSE,  \* history: a later fetch stored under the same key
     prior |-> {},           \* history: results of the earlier comparable fetches
     priorKept |-> {}]       \* history: those of them not overwritten

InFlight == { c \in DOMAIN calls : calls[c].pc = "running" }

(* a caller is free to make a call *)
CanCall(maxCalls, callers) ==
    Len(calls) < maxCalls /\ Cardinality(InFlight) < Cardinality(callers)

AllDone(c) == \A i \in DOMAIN calls[c].tasks : calls[c].tasks[i].pc = "done"

HoldsPermit(t) == t.pc \in {"connecting", "receiving"}

Returned(call) == call.pc \in {"done", "archived"}

(* history: a fetch that returned, with no publish and no expiry of its     *)
(* cache entry since                                                        *)
Comparable(call) ==
    /\ call.kind = "fetch"
    /\ Returned(call)
    /\ ~call.pubSince
    /\ now <= call.entryExpires

SameRequest(call, filters, relays) ==
    call.filters = filters /\ Range(call.relays) = Range(relays)

(* history: a publish started or returned after these fetches returned *)
NotePublish(cs) ==
    [c \in DOMAIN cs |->
        IF cs[c].kind = "fetch" /\ Returned(cs[c])
        THEN [cs[c] EXCEPT !.pubSince = TRUE] ELSE cs[c]]

(* history: another fetch for the same filters and relay set stored a result *)
NoteSet(cs, filters, relays) ==
    [c \in DOMAIN cs |->
        IF /\ cs[c].kind = "fetch"
           /\ Returned(cs[c])
           /\ SameRequest(cs[c], filters, relays)
        THEN [cs[c] EXCEPT !.overwritten = TRUE] ELSE cs[c]]

(* history: when the next call is made, the calls that have returned are    *)
(* reduced to what later calls are compared with                            *)
Archive(cs) ==
    [c \in DOMAIN cs |->
        IF ~Returned(cs[c]) THEN cs[c]
        ELSE IF Comparable(cs[c])
        THEN [BlankCall EXCEPT
                !.kind = "fetch", !.pc = "archived",
                !.filters = cs[c].filters, !.relays = cs[c].relays,
                !.events = cs[c].events,
                !.entryExpires = cs[c].entryExpires,
                !.overwritten = cs[c].overwritten]
        ELSE [BlankCall EXCEPT !.kind = cs[c].kind, !.pc = "archived",
                               !.pubSince = TRUE]]

AtTask(c, i, kind, from) ==
    /\ c \in DOMAIN calls
    /\ calls[c].kind = kind
    /\ i \in DOMAIN calls[c].tasks
    /\ calls[c].tasks[i].pc = from

SetTask(c, i, t) == calls' = [calls EXCEPT ![c].tasks[i] = t]

RelayOf(c, i) == calls[c].tasks[i].relay

----------------------------------------------------------------------------
(* RelayClient.publish_event *)

(* results[relay] = status, for every task *)
PublishResults(c) ==
    LET tasks == calls[c].tasks
        StatusOf(t) == IF t.status = "error" THEN "error:" \o t.fault
                       ELSE t.status
    IN  [r \in calls[c].skipped \cup { tasks[i].relay : i \in DOMAIN tasks } |->
            IF \E i \in DOMAIN tasks : tasks[i].relay = r
            THEN StatusOf(tasks[CHOOSE i \in DOMAIN tasks : tasks[i].relay = r])
            ELSE "cooldown"]

(* variant: no relay is skipped for its cooldown *)
SendListAll(targets) == targets

(* The relays of targets that are not on cooldown, in order *)
SendList(targets) ==
    SelectSeq(targets, LAMBDA r : ~is_on_cooldown(r))

(* cache.invalidate(); targets; "cooldown" for the relays on cooldown and a *)
(* _send_event coroutine for each other one.  With no coroutine to wait     *)
(* for, the call returns without suspending.                                *)
publish_event(relays) ==
    /\ LET targets == Targets(relays, max_writes)
           sends == SendList(targets)
           cd == { r \in Range(targets) : is_on_cooldown(r) }
           call == [BlankCall EXCEPT
                      !.kind = "publish", !.relays = relays,
                      !.targets = targets, !.skipped = cd,
                      !.cdAtCall = { r \in Range(relays) : is_on_cooldown(r) },
                      !.tasks = [i \in DOMAIN sends |-> NewTask(sends[i])],
                      !.pc = IF sends = << >> THEN "done" ELSE "running",
                      !.results = [r \in cd |-> "cooldown"]]
       IN  /\ store' = StoreAfterInvalidate
           /\ calls' = Append(Archive(NotePublish(calls)), call)
           /\ pubsDone' = IF sends = << >> THEN pubsDone + 1 ELSE pubsDone
    /\ UNCHANGED <<now, backoffVars, sem, config, appVars>>

(* `for coro in asyncio.as_completed(send_tasks)` has run out: return results *)
publish_return(c) ==
    /\ c \in DOMAIN calls
    /\ calls[c].kind = "publish"
    /\ calls[c].pc = "running"
    /\ AllDone(c)
    /\ calls' = [NotePublish(calls) EXCEPT
                   ![c].pc = "done",
                   ![c].results = PublishResults(c)]
    /\ pubsDone' = pubsDone + 1
    /\ UNCHANGED <<now, backoffVars, store, sem, config, appVars>>

----------------------------------------------------------------------------
(* RelayClient._send_event.  A step that changes nothing but the task's own *)
(* position is folded into the step after it: the await of ws.send into the *)
(* step in which the connection opens, and the close of the connection      *)
(* (bounded by close_timeout) into the step that ends the wait for a frame. *)

(* `async with self._sem` is entered, websockets.connect is called *)
Acquire(c, i, cd) ==
    /\ sem' = sem - 1
    /\ SetTask(c, i, [calls[c].tasks[i] EXCEPT
                        !.pc = "connecting", !.conns = @ + 1, !.cdSeen = cd])

(* `async with self._sem` finds no free permit *)
WaitForPermit(c, i, cd) ==
    /\ sem' = sem
    /\ SetTask(c, i, [calls[c].tasks[i] EXCEPT !.pc = "waitsem", !.cdSeen = cd])

(* record_success; the permit is released *)
EndOk(c, i, wait) ==
    /\ record_success(RelayOf(c, i))
    /\ sem' = sem + 1
    /\ SetTask(c, i, [calls[c].tasks[i] EXCEPT
                        !.pc = "done", !.status = "ok", !.wait = wait,
                        !.rec = "success"])

(* variant: the permit is not released when the operation fails *)
EndErrorKeepsPermit(c, i, fault, wait) ==
    /\ record_failure(RelayOf(c, i))
    /\ sem' = sem
    /\ SetTask(c, i, [calls[c].tasks[i] EXCEPT
                        !.pc = "done", !.status = "error", !.fault = fault,
                        !.wait = wait, !.rec = "failure"])

(* `except Exception`: record_failure; the permit is released *)
EndError(c, i, fault, wait) ==
    /\ record_failure(RelayOf(c, i))
    /\ sem' = sem + 1
    /\ SetTask(c, i, [calls[c].tasks[i] EXCEPT
                        !.pc = "done", !.status = "error", !.fault = fault,
                        !.wait = wait, !.rec = "failure"])

(* the task starts: `async with self._sem` *)
send_begin(c, i) ==
    /\ AtTask(c, i, "publish", "new")
    /\ IF sem > 0 THEN Acquire(c, i, FALSE) ELSE WaitForPermit(c, i, FALSE)
    /\ UNCHANGED <<now, backoffVars, store, pubsDone, config, appVars>>

(* a permit is released to the waiting task *)
send_acquire(c, i) ==
    /\ AtTask(c, i, "publish", "waitsem")
    /\ sem > 0
    /\ Acquire(c, i, FALSE)
    /\ UNCHANGED <<now, backoffVars, store, pubsDone, config, appVars>>

(* the connection opens, ws.send(["EVENT", event]) writes the frame;        *)
(* wait_for(ws.recv(), timeout) is awaited                                  *)
send_connect_ok(c, i) ==
    /\ AtTask(c, i, "publish", "connecting")
    /\ SetTask(c, i, [calls[c].tasks[i] EXCEPT !.pc = "receiving"])
    /\ UNCHANGED <<now, backoffVars, store, sem, pubsDone, config, appVars>>

(* websockets.connect raises (refused, handshake error, open_timeout) *)
send_connect_fail(c, i) ==
    /\ AtTask(c, i, "publish", "connecting")
    /\ EndError(c, i, "connect", "none")
    /\ UNCHANGED <<now, store, pubsDone, config, appVars>>

(* the connection opens and ws.send raises *)
send_send_fail(c, i) ==
    /\ AtTask(c, i, "publish", "connecting")
    /\ EndError(c, i, "send", "none")
    /\ UNCHANGED <<now, store, pubsDone, config, appVars>>

(* a frame arrives (an acknowledgment) *)
send_recv_ack(c, i) ==
    /\ AtTask(c, i, "publish", "receiving")
    /\ EndOk(c, i, "frame")
    /\ UNCHANGED <<now, store, pubsDone, config, appVars>>

(* variant: the timeout of the wait is not caught *)
send_recv_timeout_raises(c, i) ==
    /\ AtTask(c, i, "publish", "receiving")
    /\ EndError(c, i, "recv", "timeout")
    /\ UNCHANGED <<now, store, pubsDone, config, appVars>>

(* asyncio.TimeoutError: pass *)
send_recv_timeout(c, i) ==
    /\ AtTask(c, i, "publish", "receiving")
    /\ EndOk(c, i, "timeout")
    /\ UNCHANGED <<now, store, pubsDone, config, appVars>>

(* ws.recv raises ConnectionClosed: the relay closed without a frame *)
send_recv_closed(c, i) ==
    /\ AtTask(c, i, "publish", "receiving")
    /\ EndError(c, i, "recv", "closed")
    /\ UNCHANGED <<now, store, pubsDone, config, appVars>>

----------------------------------------------------------------------------
(* RelayClient.fetch_events *)

(* cache_key, cache.get; on a miss targets and one _fetch coroutine for     *)
(* each target under asyncio.gather                                         *)
fetch_events(filters, relays) ==
    /\ LET key == CacheKey(filters, relays)
           targets == Targets(relays, max_reads)
           fresh == { p \in DOMAIN calls :
                        /\ Comparable(calls[p])
                        /\ SameRequest(calls[p], filters, relays) }
           base == [BlankCall EXCEPT
                      !.kind = "fetch", !.relays = relays,
                      !.filters = filters, !.key = key,
                      !.cdAtCall = { r \in Range(relays) : is_on_cooldown(r) },
                      !.prior = { calls[p].events : p \in fresh },
                      !.priorKept = { calls[p].events :
                                        p \in { q \in fresh : ~calls[q].overwritten } }]
       IN  IF CacheHit(key)
           THEN /\ calls' = Append(Archive(calls),
                      [base EXCEPT !.pc = "done", !.hit = TRUE,
                                   !.events = store[key].value,
                                   !.stale = store[key].epoch < pubsDone,
                                   !.entryExpires = store[key].expires])
                /\ store' = store
           ELSE /\ calls' = Append(Archive(calls),
                      [base EXCEPT !.targets = targets,
                                   !.tasks = [i \in DOMAIN targets |->
                                                 NewTask(targets[i])]])
                /\ store' = StoreAfterGet(key)
    /\ UNCHANGED <<now, backoffVars, sem, pubsDone, config, appVars>>

(* asyncio.gather has all results: cache.set(cache_key, events); return *)
fetch_return(c) ==
    /\ c \in DOMAIN calls
    /\ calls[c].kind = "fetch"
    /\ calls[c].pc = "running"
    /\ AllDone(c)
    /\ store' = StoreAfterSet(calls[c].key, calls[c].events,
                              calls[c].filters, calls[c].targets)
    /\ calls' = [NoteSet(calls, calls[c].filters, calls[c].relays) EXCEPT
                   ![c].pc = "done",
                   ![c].entryExpires = now + CacheTtl]
    /\ UNCHANGED <<now, backoffVars, sem, pubsDone, config, appVars>>

----------------------------------------------------------------------------
(* RelayClient.fetch_events._fetch, with the same folding of steps *)

(* the task starts: the cooldown test, then `async with self._sem` *)
fetch_begin(c, i) ==
    /\ AtTask(c, i, "fetch", "new")
    /\ LET cd == is_on_cooldown(RelayOf(c, i))
       IN  IF cd
           THEN /\ sem' = sem
                /\ SetTask(c, i, [calls[c].tasks[i] EXCEPT
                                    !.pc = "done", !.status = "cooldown",
                                    !.cdSeen = cd])
           ELSE IF sem > 0 THEN Acquire(c, i, cd) ELSE WaitForPermit(c, i, cd)
    /\ UNCHANGED <<now, backoffVars, store, pubsDone, config, appVars>>

(* a permit is released to the waiting task *)
fetch_acquire(c, i) ==
    /\ AtTask(c, i, "fetch", "waitsem")
    /\ sem > 0
    /\ Acquire(c, i, calls[c].tasks[i].cdSeen)
    /\ UNCHANGED <<now, backoffVars, store, pubsDone, config, appVars>>

(* the connection opens, ws.send(["REQ", sub_id, *filters]) writes the      *)
(* frame; `async for raw in ws` waits for frames                            *)
fetch_connect_ok(c, i) ==
    /\ AtTask(c, i, "fetch", "connecting")
    /\ SetTask(c, i, [calls[c].tasks[i] EXCEPT !.pc = "receiving"])
    /\ UNCHANGED <<now, backoffVars, store, sem, pubsDone, config, appVars>>

(* websockets.connect raises (refused, handshake error, open_timeout) *)
fetch_connect_fail(c, i) ==
    /\ AtTask(c, i, "fetch", "connecting")
    /\ EndError(c, i, "connect", "none")
    /\ UNCHANGED <<now, store, pubsDone, config, appVars>>

(* the connection opens and ws.send raises *)
fetch_send_fail(c, i) ==
    /\ AtTask(c, i, "fetch", "connecting")
    /\ EndError(c, i, "send", "none")
    /\ UNCHANGED <<now, store, pubsDone, config, appVars>>

(* an ["EVENT", sub_id, event] frame: events.append(msg[2]).  An event is   *)
(* modelled by the relay that sent it.                                      *)
fetch_recv_event(c, i) ==
    /\ AtTask(c, i, "fetch", "receiving")
    /\ calls[c].tasks[i].nrecv < MaxEvents
    /\ calls' = [calls EXCEPT ![c].events = Append(@, RelayOf(c, i)),
                              ![c].tasks[i].nrecv = @ + 1]
    /\ UNCHANGED <<now, backoffVars, store, sem, pubsDone, config, appVars>>

(* an ["EOSE", ...] frame (break), or the relay closes the connection       *)
(* normally and the iteration ends                                          *)
fetch_recv_eose(c, i) ==
    /\ AtTask(c, i, "fetch", "receiving")
    /\ EndOk(c, i, "frame")
    /\ UNCHANGED <<now, store, pubsDone, config, appVars>>

(* json.loads or msg[0] raises on a malformed frame, or the iteration       *)
(* raises ConnectionClosedError                                             *)
fetch_recv_error(c, i) ==
    /\ AtTask(c, i, "fetch", "receiving")
    /\ EndError(c, i, "recv", "closed")
    /\ UNCHANGED <<now, store, pubsDone, config, appVars>>

----------------------------------------------------------------------------
(* The specifications *)

TaskIds == 1..4

(* One step of a task that the relay lets go on *)
TaskGoesOn(c, i) ==
    \/ send_begin(c, i)
    \/ send_acquire(c, i)
    \/ send_connect_ok(c, i)
    \/ send_recv_ack(c, i)
    \/ send_recv_timeout(c, i)
    \/ fetch_begin(c, i)
    \/ fetch_acquire(c, i)
    \/ fetch_connect_ok(c, i)
    \/ fetch_recv_eose(c, i)

TaskOk(c, i) == TaskGoesOn(c, i) \/ fetch_recv_event(c, i)

(* One step of a task that the relay makes fail *)
TaskFail(c, i) ==
    \/ send_connect_fail(c, i)
    \/ send_send_fail(c, i)
    \/ send_recv_closed(c, i)
    \/ fetch_connect_fail(c, i)
    \/ fetch_send_fail(c, i)
    \/ fetch_recv_error(c, i)

TaskStep == \E c \in DOMAIN calls, i \in TaskIds : TaskOk(c, i) \/ TaskFail(c, i)

TaskStepOk == \E c \in DOMAIN calls, i \in TaskIds : TaskOk(c, i)

TaskStepS == \E c \in DOMAIN calls, i \in TaskIds : TaskGoesOn(c, i) \/ TaskFail(c, i)

Return == \E c \in DOMAIN calls : publish_return(c) \/ fetch_return(c)

(* Spec: calls one after another, over relay lists with duplicates and      *)
(* more relays than the limits                                              *)
Tick == TickTo(MaxTime)

Publish ==
    \E relays \in RelayLists :
        CanCall(MaxCalls, Callers) /\ publish_event(relays)

Fetch ==
    \E filters \in FilterLists, relays \in RelayLists :
        CanCall(MaxCalls, Callers) /\ fetch_events(filters, relays)

Next == Tick \/ Publish \/ Fetch \/ Return \/ TaskStep

Spec == Init /\ [][Next]_vars

(* SpecCache: overlapping calls against one relay that answers *)
InitC == InitWith(ClientConfigC)

TickC == TickTo(MaxTimeC)

PublishC ==
    \E relays \in RelayListsC :
        CanCall(MaxCallsC, CallersC) /\ publish_event(relays)

FetchC ==
    \E filters \in FilterListsC, relays \in RelayListsC :
        CanCall(MaxCallsC, CallersC) /\ fetch_events(filters, relays)

NextC == TickC \/ PublishC \/ FetchC \/ Return \/ TaskStepOk

SpecCache == InitC /\ [][NextC]_vars

(* SpecSem: overlapping calls with more tasks than permits, against relays  *)
(* that may fail and hold no events; the clock stands still                 *)
PublishS ==
    \E relays \in RelayListsS :
        CanCall(MaxCallsS, CallersS) /\ publish_event(relays)

FetchS ==
    \E filters \in FilterLists, relays \in RelayListsS :
        CanCall(MaxCallsS, CallersS) /\ fetch_events(filters, relays)

NextS == PublishS \/ FetchS \/ Return \/ TaskStepS

SpecSem == Init /\ [][NextS]_vars

(* SpecRace: three callers at once against one relay, a permit for each *)
ClientConfigR == [max_concurrent |-> 3, max_reads |-> 1, max_writes |-> 1]

CallersR == {"a", "b", "c"}

RelayListsR == { <<"r1">> }

InitR == InitWith(ClientConfigR)

PublishR ==
    \E relays \in RelayListsR :
        CanCall(MaxCallsR, CallersR) /\ publish_event(relays)

FetchR ==
    \E filters \in FilterLists, relays \in RelayListsR :
        CanCall(MaxCallsR, CallersR) /\ fetch_events(filters, relays)

NextR == PublishR \/ FetchR \/ Return \/ TaskStepS

SpecRace == InitR /\ [][NextR]_vars

----------------------------------------------------------------------------
(* Claims *)

RECURSIVE DoubledDelay(_)
(* 5 seconds, doubled for every further failure, never above 120 *)
DoubledDelay(n) == IF n <= 1 THEN 5 ELSE Min(120, 2 * DoubledDelay(n - 1))

(* after n failures in a row: the streak, the expiry and the cap *)
C10_StreakAndDelay ==
    \A r \in Relays :
        failRun[r] >= 1 =>
            /\ failure_count[r] = failRun[r]
            /\ cooldowns[r] = lastFailAt[r] + DoubledDelay(failRun[r])
            /\ cooldowns[r] - lastFailAt[r] <= 120

(* one more failure in the streak does not shorten the cooldown *)
C10_NeverShorter ==
    \A r \in Relays :
        (failRun[r] >= 1 /\ failRun'[r] = failRun[r] + 1) =>
            cooldowns'[r] - lastFailAt'[r] >= cooldowns[r] - lastFailAt[r]

(* C10: after n >= 1 record_failure calls in a row for a relay its failure  *)
(* streak is n and its cooldown expiry is the time of the n-th call plus    *)
(* min(120, 5 * 2^(n-1)); the duration never exceeds 120 seconds and a      *)
(* further failure never shortens it.                                       *)
C10_Backoff == []C10_StreakAndDelay /\ [][C10_NeverShorter]_vars

C10_Witness ==
    /\ failRun["r1"] = MaxStreak
    /\ lastFailAt["r1"] > 0
    /\ cooldowns["r1"] = lastFailAt["r1"] + 120

(* the tasks of all calls, as <<call, task>> pairs *)
AllTasks == { <<c, i>> : c \in DOMAIN calls, i \in TaskIds } \cap
            { ci \in (DOMAIN calls) \X TaskIds : ci[2] \in DOMAIN calls[ci[1]].tasks }

TaskAt(ci) == calls[ci[1]].tasks[ci[2]]

(* connections open: connect called and the task not yet over *)
OpenConnections == { ci \in AllTasks : TaskAt(ci).pc \in {"connecting", "receiving"} }

(* C6: the relay connections open at the same time, over all running        *)
(* publish and fetch calls together, number at most max_concurrent, and     *)
(* every permit taken is back once its relay operation has ended, with      *)
(* success or with failure: the free permits and the open connections add   *)
(* up to max_concurrent.                                                    *)
C6_BoundedConnections ==
    /\ Cardinality(OpenConnections) <= max_concurrent
    /\ sem >= 0
    /\ sem + Cardinality(OpenConnections) = max_concurrent

C6_Witness ==
    /\ Cardinality(OpenConnections) = max_concurrent
    /\ \E ci \in AllTasks : TaskAt(ci).pc = "waitsem"
    /\ \E ci \in AllTasks : TaskAt(ci).rec = "failure"
    /\ \E ci \in AllTasks : TaskAt(ci).rec = "success"
    /\ \E c, d \in InFlight : calls[c].kind = "publish" /\ calls[d].kind = "fetch"

(* FairSpecSem: what the event loop and the timeouts of the code guarantee. *)
(* A scheduled task runs, a released permit goes to a waiter, connect ends  *)
(* within open_timeout, wait_for(ws.recv(), timeout) ends within timeout,   *)
(* a call whose tasks are over returns.  Nothing in _fetch bounds the wait  *)
(* of `async for raw in ws`; its end is up to the relay.                    *)
Guaranteed ==
    \/ Return
    \/ \E c \in DOMAIN calls, i \in TaskIds :
          \/ send_begin(c, i)
          \/ send_acquire(c, i)
          \/ send_connect_ok(c, i)
          \/ send_connect_fail(c, i)
          \/ send_send_fail(c, i)
          \/ send_recv_ack(c, i)
          \/ send_recv_timeout(c, i)
          \/ send_recv_closed(c, i)
          \/ fetch_begin(c, i)
          \/ fetch_acquire(c, i)
          \/ fetch_connect_ok(c, i)
          \/ fetch_connect_fail(c, i)
          \/ fetch_send_fail(c, i)

FairSpecSem == SpecSem /\ WF_vars(Guaranteed)

(* C7: every publish and every fetch call that is made eventually returns.  *)
C7_EveryCallReturns ==
    \A c \in 1..MaxCallsS :
        (Len(calls) >= c) ~> (Len(calls) >= c /\ Returned(calls[c]))

FetchCalls == { c \in DOMAIN calls : calls[c].kind = "fetch" }

(* C1: once a publish call has returned, no later fetch_events call is      *)
(* served from the cache a result that was stored before that publish       *)
(* returned, whatever fetches were in flight during the publish.            *)
C1_NoStaleHit ==
    \A c \in FetchCalls : calls[c].hit => ~calls[c].stale

(* C2 as stated: a fetch made after an earlier fetch with the same filters  *)
(* and relay set returned, with no publish and no expiry in between, is     *)
(* served from the cache, opens no connection and returns that earlier      *)
(* call's events.                                                           *)
C2_SameAsAnyEarlier ==
    \A c \in FetchCalls :
        \A e \in calls[c].prior :
            /\ calls[c].hit
            /\ calls[c].tasks = NoTasks
            /\ calls[c].events = e

(* C2 amended: the same, for an earlier fetch whose cache entry was not     *)
(* replaced by another fetch with the same filters and relay set that       *)
(* returned in between.                                                     *)
C2_SameAsLastStored ==
    \A c \in FetchCalls :
        \A e \in calls[c].priorKept :
            /\ calls[c].hit
            /\ calls[c].tasks = NoTasks
            /\ calls[c].events = e

C2_Witness ==
    \E c \in FetchCalls :
        /\ calls[c].priorKept # {}
        /\ calls[c].hit
        /\ calls[c].events # << >>
        /\ now > calls[c].entryExpires - CacheTtl
        /\ \E d \in DOMAIN calls : d < c /\ calls[d].kind = "publish"

(* The calls whose record is complete: running, or returned and not yet     *)
(* reduced by a later call                                                  *)
LiveCalls == { c \in DOMAIN calls : calls[c].pc \in {"running", "done"} }

TasksOf(c) == { calls[c].tasks[i] : i \in DOMAIN calls[c].tasks }

Contacted(c) == { t.relay : t \in { u \in TasksOf(c) : u.conns > 0 } }

LimitOf(c) == IF calls[c].kind = "publish" THEN max_writes ELSE max_reads

(* C3 as stated: a relay of the list passed that is on cooldown at the call *)
(* gets no connection attempt from the call, publish reports "cooldown"     *)
(* for it, and the call applies neither record_failure nor record_success   *)
(* to it.                                                                   *)
C3_CooldownAtCall ==
    \A c \in LiveCalls :
        \A r \in calls[c].cdAtCall :
            /\ \A t \in TasksOf(c) : t.relay = r => t.conns = 0 /\ t.rec = "none"
            /\ (calls[c].kind = "publish" /\ calls[c].pc = "done") =>
                  /\ r \in DOMAIN calls[c].results
                  /\ calls[c].results[r] = "cooldown"

(* C3 amended: the same for a relay among the targets of the call (the      *)
(* first `limit` distinct entries) that is on cooldown when the call tests  *)
(* it: publish at the call, fetch when the _fetch task of the relay starts. *)
(* A relay beyond the limit gets no connection and no entry.                *)
C3_CooldownWhenTested ==
    \A c \in LiveCalls :
        /\ calls[c].kind = "publish" =>
              \A r \in calls[c].cdAtCall :
                  /\ \A t \in TasksOf(c) : t.relay # r
                  /\ (calls[c].pc = "done" /\ r \in Range(calls[c].targets)) =>
                        /\ r \in DOMAIN calls[c].results
                        /\ calls[c].results[r] = "cooldown"
                  /\ (calls[c].pc = "done" /\ r \notin Range(calls[c].targets)) =>
                        r \notin DOMAIN calls[c].results
        /\ calls[c].kind = "fetch" =>
              /\ \A t \in TasksOf(c) :
                    t.cdSeen => t.conns = 0 /\ t.rec = "none"
              /\ \A r \in calls[c].cdAtCall \ Range(calls[c].targets) :
                    \A t \in TasksOf(c) : t.relay # r

C3_Witness ==
    \E c \in LiveCalls :
        /\ calls[c].kind = "publish"
        /\ calls[c].pc = "done"
        /\ calls[c].relays = <<"r1", "r3", "r1", "r2">>
        /\ "r1" \in calls[c].cdAtCall
        /\ calls[c].results = [r \in {"r1", "r3"} |->
                                 IF r = "r1" THEN "cooldown" ELSE "ok"]
        /\ failure_count["r1"] = 1
        /\ cooldowns["r1"] > now

(* The first `limit` distinct entries of a list, from the list itself *)
FirstDistinct(relays, limit) ==
    { relays[i] : i \in { j \in DOMAIN relays :
                            Cardinality({ relays[k] : k \in 1..j }) <= limit } }

(* C4: one call opens connections to at most `limit` distinct relays        *)
(* (max_writes for publish, max_reads for fetch), to each relay at most     *)
(* once, and only to relays among the first `limit` distinct entries of the *)
(* list passed.                                                             *)
C4_BoundedFanOut ==
    \A c \in LiveCalls :
        /\ Cardinality(Contacted(c)) <= LimitOf(c)
        /\ \A i, j \in DOMAIN calls[c].tasks :
              /\ calls[c].tasks[i].conns <= 1
              /\ (i # j /\ calls[c].tasks[i].conns > 0 /\ calls[c].tasks[j].conns > 0)
                    => calls[c].tasks[i].relay # calls[c].tasks[j].relay
        /\ Contacted(c) \subseteq FirstDistinct(calls[c].relays, LimitOf(c))

C4_Witness ==
    \E c, d \in DOMAIN calls :
        /\ c < d
        /\ calls[c].kind = "publish"
        /\ calls[d].kind = "fetch"
        /\ calls[d].pc = "done"
        /\ calls[d].relays = <<"r1", "r3", "r1", "r2">>
        /\ Contacted(d) = {"r1", "r3"}
        /\ Cardinality(Contacted(d)) = max_reads

(* C5: a relay on cooldown does not use up one of the `limit` places of a   *)
(* call while a relay later in the list that is not on cooldown is left     *)
(* out.                                                                     *)
C5_NoWastedSlot ==
    \A c \in LiveCalls :
        (calls[c].kind = "publish" \/ ~calls[c].hit) =>
            ~ /\ \E r \in Range(calls[c].targets) : r \in calls[c].cdAtCall
              /\ \E r \in Range(calls[c].relays) :
                    r \notin Range(calls[c].targets) /\ r \notin calls[c].cdAtCall

(* C8: a fetch of which some relays failed and others succeeded returns    *)
(* exactly the events of the relays that did not fail, and record_failure   *)
(* has been applied to exactly the relays that failed.                      *)
C8_OnlyEventsOfSucceeded ==
    \A c \in LiveCalls :
        ( /\ calls[c].kind = "fetch" /\ calls[c].pc = "done" /\ ~calls[c].hit
          /\ \E t \in TasksOf(c) : t.status = "error"
          /\ \E t \in TasksOf(c) : t.status = "ok" ) =>
            /\ \A k \in DOMAIN calls[c].events :
                  \E t \in TasksOf(c) :
                      t.relay = calls[c].events[k] /\ t.status # "error"
            /\ \A t \in TasksOf(c) :
                  /\ t.status # "error" =>
                        Cardinality({ k \in DOMAIN calls[c].events :
                                        calls[c].events[k] = t.relay }) = t.nrecv
                  /\ (t.rec = "failure") <=> (t.status = "error")

(* C9 as stated: the map publish returns has one entry for each relay of    *)
(* targets: "cooldown" for a relay skipped, "ok" with record_success where  *)
(* connect and send succeeded, "error:..." with record_failure where        *)
(* connect or send failed.                                                  *)
C9_OkWheneverSent ==
    \A c \in LiveCalls :
        (calls[c].kind = "publish" /\ calls[c].pc = "done") =>
            /\ DOMAIN calls[c].results = Range(calls[c].targets)
            /\ \A r \in calls[c].skipped : calls[c].results[r] = "cooldown"
            /\ \A t \in TasksOf(c) :
                  /\ t.fault \notin {"connect", "send"} =>
                        calls[c].results[t.relay] = "ok" /\ t.rec = "success"
                  /\ t.fault \in {"connect", "send"} =>
                        /\ calls[c].results[t.relay] = "error:" \o t.fault
                        /\ t.rec = "failure"

(* C9 amended: "ok" with record_success where connect and send succeeded    *)
(* and the wait for the acknowledgment ended with a frame or with the       *)
(* timeout; "error:..." with record_failure where connect or send failed or *)
(* the connection was closed during that wait.                              *)
C9_OutcomeMap ==
    \A c \in LiveCalls :
        (calls[c].kind = "publish" /\ calls[c].pc = "done") =>
            /\ DOMAIN calls[c].results = Range(calls[c].targets)
            /\ \A r \in calls[c].skipped : calls[c].results[r] = "cooldown"
            /\ \A t \in TasksOf(c) :
                  /\ t.relay \notin calls[c].skipped
                  /\ t.wait \in {"frame", "timeout"} =>
                        calls[c].results[t.relay] = "ok" /\ t.rec = "success"
                  /\ (t.fault \in {"connect", "send"} \/ t.wait = "closed") =>
                        /\ calls[c].results[t.relay] = "error:" \o t.fault
                        /\ t.rec = "failure"
                  /\ t.wait \in {"frame", "timeout"}
                        \/ t.fault \in {"connect", "send"} \/ t.wait = "closed"

C9_Witness ==
    \E c \in LiveCalls :
        /\ calls[c].kind = "publish"
        /\ calls[c].pc = "done"
        /\ \E t, u \in TasksOf(c) :
              /\ t.wait = "timeout"
              /\ calls[c].results[t.relay] = "ok"
              /\ u.fault = "connect"
              /\ calls[c].results[u.relay] = "error:connect"

(* a record_success step for r that ends a failure streak *)
EndsStreak(r) == failRun[r] >= 1 /\ failRun'[r] = 0

(* the relay passes the cooldown test of publish_event and of _fetch *)
TargetedAgain(r) == ~is_on_cooldown(r) /\ SendList(<<r>>) = <<r>>

(* the state right after a record_success step for r *)
C11_HealedStep ==
    \A r \in Relays :
        EndsStreak(r) =>
            /\ failure_count'[r] = 0
            /\ cooldowns'[r] = 0
            /\ TargetedAgain(r)'

(* the first record_failure after it *)
C11_FreshStreakStep ==
    \A r \in Relays :
        (failRun[r] = 0 /\ failRun'[r] = 1) =>
            /\ failure_count'[r] = 1
            /\ cooldowns'[r] = now' + 5

(* C11: one record_success for a relay, after a failure streak of any       *)
(* length and with the cooldown still running, sets the streak to 0 and     *)
(* clears the cooldown at once: is_on_cooldown is false right after it, the *)
(* relay passes the cooldown test of the next publish and fetch, and the    *)
(* next record_failure gives a cooldown of 5 seconds.                       *)
C11_SuccessHeals == [][C11_HealedStep /\ C11_FreshStreakStep]_vars

C11_Witness ==
    /\ failRun["r1"] = 0
    /\ failure_count["r1"] = 0
    /\ cooldowns["r1"] = 0
    /\ lastFailAt["r1"] > 0
    /\ now < lastFailAt["r1"] + 5
    /\ ~is_on_cooldown("r1")

(* a step in which the task i of call c records the outcome `rec` *)
Records(c, i, rec) ==
    /\ c \in DOMAIN calls
    /\ i \in DOMAIN calls[c].tasks
    /\ calls[c].tasks[i].rec = "none"
    /\ i \in DOMAIN calls'[c].tasks
    /\ calls'[c].tasks[i].rec = rec

(* the streak is the number of failures recorded since the last success *)
C12_StreakIsCount ==
    \A r \in Relays : failure_count[r] = failRun[r]

(* every operation that fails adds one, every one that succeeds resets *)
C12_OneStepOneCount ==
    \A c \in DOMAIN calls, i \in TaskIds :
        /\ Records(c, i, "failure") =>
              failure_count'[RelayOf(c, i)] = failure_count[RelayOf(c, i)] + 1
        /\ Records(c, i, "success") =>
              failure_count'[RelayOf(c, i)] = 0

(* C12: when k relay operations that run at the same time each fail        *)
(* against one relay, with no success for it in between, its failure       *)
(* streak grows by exactly k under every interleaving, and a success in    *)
(* between leaves the streak at the number of failures recorded after it.  *)
C12_NoLostUpdate == []C12_StreakIsCount /\ [][C12_OneStepOneCount]_vars

C12_Witness ==
    /\ Len(calls) = 3
    /\ \A c \in DOMAIN calls :
          /\ calls[c].pc = "running"
          /\ calls[c].tasks # NoTasks
          /\ calls[c].tasks[1].rec = "failure"
    /\ \E c, d \in DOMAIN calls : calls[c].kind = "publish" /\ calls[d].kind = "fetch"
    /\ failure_count["r1"] = 3

----------------------------------------------------------------------------
(* nostr/event.py: sign_event and verify_event.  Values are strings; a key  *)
(* pair, a hash and a signature are modelled by what they are made from:    *)
(* sha256 is injective on the serializations at hand, and a signature       *)
(* verifies for the public key of the signing key and the signed digest     *)
(* only.                                                                    *)

Keys == {"skA", "skB"}

(* nostr/key.py derive_pubkey_hex: the raw 64-byte point, as hex *)
derive_pubkey_hex(sk) == IF sk = "skA" THEN "pkA" ELSE "pkB"

PubKeys == { derive_pubkey_hex(sk) : sk \in Keys }

(* what a field of an event from the wire may hold instead *)
NotHex == "zz"          \* a string that is not hexadecimal
ShortHex == "abcd"      \* hexadecimal, of a length no key or signature has
NotString == "#5"       \* a JSON value that is not a string

TagLists == { << >>, <<"e:X">>, <<"e:X", "p:Y">>, <<"p:Y", "e:X">> }

Drafts ==
    [pubkey : PubKeys, created_at : {"1", "2"}, kind : {"1", "5"},
     tags : TagLists, content : {"a", "b"}]

(* variant: the kind is left out of the serialization *)
serialize_event_without_kind(pubkey, created_at, kind, tags, content) ==
    <<"0", pubkey, created_at, tags, content>>

(* json.dumps([0, pubkey, created_at, kind, tags, content]) *)
serialize_event(pubkey, created_at, kind, tags, content) ==
    <<"0", pubkey, created_at, kind, tags, content>>

(* hashlib.sha256(...).hexdigest() *)
compute_event_id(serialized_event) == [sha256 |-> serialized_event]

NoDigest == [sha256 |-> << >>]

(* sk.sign_digest(digest).hex() *)
sign_digest(sk, digest) == [fmt |-> "sig", by |-> sk, over |-> digest]

(* a sig field that is no signature *)
BadSig(fmt) == [fmt |-> fmt, by |-> "", over |-> NoDigest]

(* event[name] = value *)
SetField(ev, name, value) ==
    [f \in DOMAIN ev \cup {name} |-> IF f = name THEN value ELSE ev[f]]

(* del event[name] *)
DropField(ev, name) == [f \in DOMAIN ev \ {name} |-> ev[f]]

(* event.get(name, default) *)
GetField(ev, name, default) == IF name \in DOMAIN ev THEN ev[name] ELSE default

sign_event(sk, ev) ==
    LET serialized == serialize_event(ev.pubkey, ev.created_at, ev.kind,
                                      ev.tags, ev.content)
        event_id == compute_event_id(serialized)
        signature == sign_digest(sk, event_id)
    IN  SetField(SetField(ev, "id", event_id), "sig", signature)

(* The id verify_event computes, when the three required fields are there *)
ComputedId(ev) ==
    compute_event_id(serialize_event(ev.pubkey, ev.created_at, ev.kind,
                                     GetField(ev, "tags", << >>),
                                     GetField(ev, "content", "")))

(* verify_event: "true", "false", or the exception that leaves it.  Only    *)
(* BadSignatureError, KeyError and ValueError are caught: bytes.fromhex of  *)
(* a value that is no string raises TypeError, VerifyingKey.from_string of  *)
(* bytes of a wrong length raises MalformedPointError, an AssertionError.   *)
verify_event(ev) ==
    IF ~({"pubkey", "created_at", "kind"} \subseteq DOMAIN ev)
    THEN "false"                                        \* KeyError
    ELSE IF GetField(ev, "id", NoDigest) # ComputedId(ev)
    THEN "false"
    ELSE IF ev.pubkey = NotString THEN "TypeError"
    ELSE IF ev.pubkey = NotHex THEN "false"             \* ValueError
    ELSE IF ev.pubkey = ShortHex THEN "AssertionError"
    ELSE IF "sig" \notin DOMAIN ev THEN "false"         \* KeyError
    ELSE IF ev.sig.fmt = NotString THEN "TypeError"
    ELSE IF ev.sig.fmt = NotHex THEN "false"            \* ValueError
    ELSE IF ev.sig.fmt = ShortHex THEN "false"          \* BadSignatureError
    ELSE IF /\ derive_pubkey_hex(ev.sig.by) = ev.pubkey
            /\ ev.sig.over = ComputedId(ev)
    THEN "true"
    ELSE "false"                                        \* BadSignatureError

(* Changes to a signed event: the ones of a forger ... *)
Tamperings == {"content", "created_at", "kind", "tag", "tag_order"}

(* ... and the structural defects of an event from the wire *)
Defects ==
    {"no_pubkey", "no_created_at", "no_kind", "no_id", "no_sig",
     "pubkey_nothex", "pubkey_short", "pubkey_type",
     "sig_nothex", "sig_short", "sig_type", "id_other", "sig_other"}

OtherKey(sk) == CHOOSE k \in Keys : k # sk

Changed(ev, change) ==
    CASE change = "content" -> SetField(ev, "content", "forged")
      [] change = "created_at" -> SetField(ev, "created_at", "9")
      [] change = "kind" -> SetField(ev, "kind", "9")
      [] change = "tag" ->
            IF ev.tags = << >> THEN SetField(ev, "tags", <<"e:Z">>)
            ELSE SetField(ev, "tags", [ev.tags EXCEPT ![1] = "e:Z"])
      [] change = "tag_order" ->
            IF Len(ev.tags) < 2 THEN ev
            ELSE SetField(ev, "tags", <<ev.tags[2], ev.tags[1]>>)
      [] change = "no_pubkey" -> DropField(ev, "pubkey")
      [] change = "no_created_at" -> DropField(ev, "created_at")
      [] change = "no_kind" -> DropField(ev, "kind")
      [] change = "no_id" -> DropField(ev, "id")
      [] change = "no_sig" -> DropField(ev, "sig")
      [] change = "pubkey_nothex" -> SetField(ev, "pubkey", NotHex)
      [] change = "pubkey_short" -> SetField(ev, "pubkey", ShortHex)
      [] change = "pubkey_type" -> SetField(ev, "pubkey", NotString)
      [] change = "sig_nothex" -> SetField(ev, "sig", BadSig(NotHex))
      [] change = "sig_short" -> SetField(ev, "sig", BadSig(ShortHex))
      [] change = "sig_type" -> SetField(ev, "sig", BadSig(NotString))
      [] change = "id_other" ->
            SetField(ev, "id", compute_event_id(<<"0", "other">>))
      [] change = "sig_other" ->
            SetField(ev, "sig", sign_digest(OtherKey(ev.sig.by), ev.id))

(* the sender of a changed event sets the id that fits what it sends *)
Rehashed(ev) ==
    IF {"pubkey", "created_at", "kind", "id"} \subseteq DOMAIN ev
    THEN SetField(ev, "id", ComputedId(ev))
    ELSE ev

(* SpecEvent: an event is signed, perhaps changed, and verified *)
SignDraft ==
    /\ event = NoEvent
    /\ \E sk \in Keys, draft \in Drafts :
          /\ event' = sign_event(sk, draft)
          /\ made' = [by |-> sk, change |-> "none", rehash |-> FALSE]
    /\ verdict' = "none"
    /\ UNCHANGED <<clientVars, commentVars, engageVars, writeVars,
                   essayVars>>

ChangeEvent ==
    /\ event # NoEvent
    /\ made.change = "none"
    /\ verdict = "none"
    /\ \E change \in Tamperings \cup Defects, rehash \in BOOLEAN :
          LET changed == Changed(event, change)
          IN  /\ changed # event
              /\ event' = IF rehash THEN Rehashed(changed) ELSE changed
              /\ made' = [made EXCEPT !.change = change, !.rehash = rehash]
    /\ verdict' = "none"
    /\ UNCHANGED <<clientVars, commentVars, engageVars, writeVars,
                   essayVars>>

VerifyEvent ==
    /\ event # NoEvent
    /\ verdict = "none"
    /\ verdict' = verify_event(event)
    /\ UNCHANGED <<event, made, clientVars, commentVars, engageVars, writeVars,
                   essayVars>>

NextE == SignDraft \/ ChangeEvent \/ VerifyEvent

SpecEvent == Init /\ [][NextE]_vars

(* C16: verify_event returns false, and raises nothing, for an event that   *)
(* lacks pubkey, created_at, kind, id or sig, whose pubkey or sig is not    *)
(* hexadecimal or has a wrong length or type, whose id is not the           *)
(* recomputed id, or whose signature does not verify.                       *)
C16_FailsClosed ==
    (made.change \in Defects /\ verdict # "none") => verdict = "false"

(* C17: verify_event is true for an event signed with the key of its        *)
(* pubkey, and false once its content, created_at, kind, one tag or the     *)
(* order of its tags has been changed after signing.                        *)
C17_SignVerify ==
    verdict # "none" =>
        /\ (made.change = "none" /\ event.pubkey = derive_pubkey_hex(made.by))
              => verdict = "true"
        /\ made.change \in Tamperings => verdict = "false"

C17_Witness ==
    /\ made.change = "tag_order"
    /\ made.rehash
    /\ event.pubkey = derive_pubkey_hex(made.by)
    /\ event.tags = <<"e:X", "p:Y">>
    /\ verdict = "false"

----------------------------------------------------------------------------
(* comments/service.py: CommentService.fetch_comments_for_essay.  A kind 1  *)
(* event is a record: id, pubkey, created_at, reply (the ids its            *)
(* ["e", id, "", "reply"] tags name, in tag order) and sig_ok (whether      *)
(* verify_event accepts it).  A kind 5 event has pubkey, targets (the ids   *)
(* its ["e", id] tags name) and sig_ok.                                     *)

CommentTtl == 30        \* CommentCache.__init__ ttl

NoParent == "none"      \* parent_id is None

NoId == ""              \* ev.get("id") is None or empty

(* for ev in relay_events + local_events: an event without an id is passed *)
(* over, and the first event of an id wins                                  *)
RECURSIVE MergeById(_, _)
MergeById(evs, seen) ==
    IF evs = << >> THEN << >>
    ELSE IF Head(evs).id = NoId \/ Head(evs).id \in seen
    THEN MergeById(Tail(evs), seen)
    ELSE <<Head(evs)>> \o MergeById(Tail(evs), seen \cup {Head(evs).id})

(* variant: every event is kept, whatever its id *)
EventsUnmerged(evs) == evs

(* lines 125-130: events_by_id, in insertion order *)
EventsById(evs) == MergeById(evs, {})

(* the last reply tag of the event decides parent_id *)
ParentId(ev) == IF ev.reply = << >> THEN NoParent ELSE ev.reply[Len(ev.reply)]

RECURSIVE InsertByTime(_, _, _)
InsertByTime(sorted, c, at) ==
    IF sorted = << >> THEN <<c>>
    ELSE IF at[c] < at[Head(sorted)] THEN <<c>> \o sorted
    ELSE <<Head(sorted)>> \o InsertByTime(Tail(sorted), c, at)

RECURSIVE SortFrom(_, _, _)
SortFrom(done, rest, at) ==
    IF rest = << >> THEN done
    ELSE SortFrom(InsertByTime(done, Head(rest), at), Tail(rest), at)

(* variant: the comments are left in the order they arrived *)
sorted_as_arrived(cs, at) == cs

(* sorted(cs, key=lambda c: c.created_at): stable, ascending *)
sorted_by_created_at(cs, at) == SortFrom(<< >>, cs, at)

(* the ids of a sequence of events, in order *)
IdsOf(evs) == [i \in DOMAIN evs |-> evs[i].id]

(* the comments reachable from the roots through replies, n levels deep *)
RECURSIVE Under(_, _, _)
Under(nodes, found, n) ==
    IF n = 0 THEN found
    ELSE Under(nodes,
               found \cup UNION { {nodes[c].replies[i] : i \in DOMAIN nodes[c].replies}
                                  : c \in found },
               n - 1)

(* lines 153-189: the comments dict, the children lists, the roots *)
BuildThread(events_by_id, deleted_ids, blocked) ==
    LET kept == SelectSeq(events_by_id, LAMBDA ev : ev.pubkey \notin blocked)
        ids == { kept[i].id : i \in DOMAIN kept }
        at == [c \in ids |-> (CHOOSE i \in DOMAIN kept : kept[i].id = c)]
        created == [c \in ids |-> kept[at[c]].created_at]
        children(p) == IdsOf(SelectSeq(kept, LAMBDA ev : ParentId(ev) = p))
        comments ==
            [c \in ids |->
                [pubkey |-> kept[at[c]].pubkey,
                 created_at |-> created[c],
                 parent_id |-> ParentId(kept[at[c]]),
                 deleted |-> c \in deleted_ids,
                 replies |-> sorted_by_created_at(children(c), created)]]
        roots == sorted_by_created_at(children(NoParent), created)
        reached == Under(comments, { roots[i] : i \in DOMAIN roots },
                         Cardinality(ids))
    IN  [roots |-> roots, nodes |-> [c \in reached |-> comments[c]]]

(* CommentCache.get: the entry, unless there is none or it has expired *)
CacheGet(viewer) ==
    IF comment_cache[viewer].expires_at = 0 THEN NoEntry
    ELSE IF comment_cache[viewer].expires_at < now THEN NoEntry
    ELSE comment_cache[viewer]

(* _blocked_pubkeys *)
blocked_pubkeys(viewer) ==
    IF viewer = "anon" THEN {}
    ELSE { row[2] : row \in { r \in user_blocks : r[1] = viewer } }

(* variant: the deletion events are fetched and not applied *)
DeletedIdsNone(deletions) == {}

(* the ids the ["e", id] tags of the deletion events name *)
DeletedIds(deletions) ==
    UNION { { deletions[i].targets[j] : j \in DOMAIN deletions[i].targets }
            : i \in DOMAIN deletions }

(* what a relay answers to {"kinds": [5], "#e": comment_ids} *)
DeletionsOf(comment_ids) ==
    SelectSeq(relay_deletions,
              LAMBDA d : \E j \in DOMAIN d.targets : d.targets[j] \in comment_ids)

(* One call of fetch_comments_for_essay for the essay.  relays is the relay *)
(* list passed in; got_notes and got_deletions tell whether the two         *)
(* fetch_events calls reached the relays (fetch_events returns [] when they *)
(* fail); commit_ok tells whether session.commit() succeeded.               *)
fetch_comments_for_essay(viewer, relays, got_notes, got_deletions, commit_ok) ==
    IF CacheGet(viewer) # NoEntry
    THEN /\ thread' = CacheGet(viewer).value
         /\ built' = [NotBuilt EXCEPT !.viewer = viewer, !.hit = TRUE]
         /\ UNCHANGED <<comment_cache, cache_rows>>
    ELSE LET relays_list == SubSeq(relays, 1, IF Len(relays) < 5 THEN Len(relays) ELSE 5)
             relay_events == IF relays_list # << >> /\ got_notes
                             THEN relay_notes ELSE << >>
             local_events == cache_rows
             events_by_id == EventsById(relay_events \o local_events)
             comment_ids == { events_by_id[i].id : i \in DOMAIN events_by_id }
             deletions == IF comment_ids # {} /\ relays_list # << >> /\ got_deletions
                          THEN DeletionsOf(comment_ids) ELSE << >>
             deleted_ids == DeletedIds(deletions)
             blocked == blocked_pubkeys(viewer)
             roots == BuildThread(events_by_id, deleted_ids, blocked)
         IN  /\ cache_rows' = IF deleted_ids # {} /\ commit_ok
                              THEN SelectSeq(cache_rows,
                                             LAMBDA row : row.id \notin deleted_ids)
                              ELSE cache_rows
             /\ thread' = roots
             /\ comment_cache' =
                    [comment_cache EXCEPT
                        ![viewer] = [expires_at |-> now + CommentTtl, value |-> roots]]
             /\ built' = [viewer |-> viewer, hit |-> FALSE,
                          relay_events |-> relay_events,
                          events |-> events_by_id, deletions |-> deletions,
                          blocked |-> blocked, rows |-> IdsOf(cache_rows),
                          committed |-> (deleted_ids = {} \/ commit_ok)]

otherVars == <<clientVars, failRun, lastFailAt, eventVars, engageVars, writeVars,
               essayVars>>

(* the viewer asks for the thread; the relays answer the first request *)
FetchView ==
    /\ \E got_deletions \in BOOLEAN, commit_ok \in BOOLEAN :
          fetch_comments_for_essay("V", <<"r1">>, TRUE, got_deletions, commit_ok)
    /\ UNCHANGED <<relay_notes, relay_deletions, user_blocks, otherVars>>

(* The relays, the block list and the clock change under the service *)
NoteIds == <<"A", "B", "C">>

Authors == {"P", "Q"}

Stamps == {1, 2, 3}

AbsentId == "Z"     \* the id of an event that is not among the comments

(* event ids are unique: a new comment takes the first id not yet in use *)
UsedIds == Range(IdsOf(relay_notes)) \cup Range(IdsOf(cache_rows))

FreeAt == { i \in DOMAIN NoteIds : NoteIds[i] \notin UsedIds }

NextId == NoteIds[CHOOSE i \in FreeAt : \A j \in FreeAt : i <= j]

RelayStoresNote(note) ==
    /\ FreeAt # {}
    /\ note.id = NextId
    /\ relay_notes' = Append(relay_notes, note)
    /\ UNCHANGED <<relay_deletions, cache_rows, user_blocks, comment_cache,
                   thread, built, otherVars>>

UserBlocks(blocked) ==
    /\ <<"V", blocked>> \notin user_blocks
    /\ user_blocks' = user_blocks \cup {<<"V", blocked>>}
    /\ UNCHANGED <<relay_notes, relay_deletions, cache_rows, comment_cache,
                   thread, built, otherVars>>

RelayStoresDeletion(deletion) ==
    /\ relay_deletions = << >>
    /\ relay_deletions' = <<deletion>>
    /\ UNCHANGED <<relay_notes, cache_rows, user_blocks, comment_cache,
                   thread, built, otherVars>>

(* the clock at the start, and just past the expiry of an entry cached then *)
CommentTimes == {0, CommentTtl + 1}

TickV ==
    /\ \E t \in CommentTimes : t > now /\ now' = t
    /\ UNCHANGED <<backoffVars, store, sem, config, calls, pubsDone, appVars>>

(* nostr/signers.py.  A session is named by its mode; "nip46_partial" is a  *)
(* nip46 session that lacks signer_pubkey, client_secret or relay.          *)
SessionModes == {"local", "nip07", "nip46", "nip46_partial", "readonly"}

signer_from_session(session) ==
    CASE session = "local" -> "LocalSigner"
      [] session = "nip07" -> "Nip07SignerAdapter"
      [] session = "nip46" -> "Nip46Signer"
      [] OTHER -> "SignerError"                 \* Unsupported session

(* signer.sign_event; remote_ok: the bunker answered with a result *)
signer_sign_event(signer, remote_ok) ==
    CASE signer = "LocalSigner" -> "signed"
      [] signer = "Nip07SignerAdapter" -> "SignerError"
      [] signer = "Nip46Signer" -> IF remote_ok THEN "signed" ELSE "SignerError"

(* the key the signer of the session signs with *)
SignerPubkey(session) == IF session = "local" THEN "Q" ELSE "P"

(* what signer_from_session and sign_event make of a template *)
Signing(session, remote_ok) ==
    IF signer_from_session(session) = "SignerError" THEN "SignerError"
    ELSE signer_sign_event(signer_from_session(session), remote_ok)

(* an operation ended; raised: the exception that left it *)
Ended(op, session, raised) ==
    [NoOutcome EXCEPT !.op = op, !.session = session, !.raised = raised]

(* CommentCache.invalidate(root_id): the model has one essay *)
Invalidated == [v \in Viewers |-> NoEntry]

(* CommentService.publish_comment; relay_ok: a relay took the event, *)
(* commit_ok: _store_local_cache committed the row                    *)
publish_comment(session, parent_id, remote_ok, relay_ok, commit_ok) ==
    IF session = "readonly"
    THEN /\ outcome' = Ended("publish_comment", session, "PermissionError")
         /\ UNCHANGED <<relay_notes, cache_rows, comment_cache, published>>
    ELSE IF Signing(session, remote_ok) = "SignerError"
    THEN /\ outcome' = Ended("publish_comment", session, "SignerError")
         /\ UNCHANGED <<relay_notes, cache_rows, comment_cache, published>>
    ELSE LET signed == [id |-> NextId, pubkey |-> SignerPubkey(session),
                        created_at |-> now,
                        reply |-> IF parent_id = NoParent THEN << >>
                                  ELSE <<parent_id>>,
                        sig_ok |-> TRUE]
         IN  /\ published' = published \cup {[kind |-> "1", by |-> signed.pubkey]}
             /\ relay_notes' = IF relay_ok THEN Append(relay_notes, signed)
                               ELSE relay_notes
             /\ cache_rows' = IF commit_ok THEN Append(cache_rows, signed)
                              ELSE cache_rows
             /\ comment_cache' = Invalidated
             /\ outcome' = Ended("publish_comment", session, "none")

PublishComment(sessions) ==
    /\ FreeAt # {}
    /\ \E session \in sessions, parent_id \in {NoParent} \cup UsedIds,
          remote_ok \in BOOLEAN, relay_ok \in BOOLEAN, commit_ok \in BOOLEAN :
          publish_comment(session, parent_id, remote_ok, relay_ok, commit_ok)
    /\ UNCHANGED <<relay_deletions, user_blocks, thread, built, essay_versions,
                   clientVars, failRun, lastFailAt, eventVars, engageVars,
                   essayVars>>

(* CommentService.delete_comment *)
delete_comment(comment_id, session, remote_ok, relay_ok, commit_ok) ==
    IF session = "readonly"
    THEN /\ outcome' = Ended("delete_comment", session, "PermissionError")
         /\ UNCHANGED <<relay_deletions, cache_rows, comment_cache, published>>
    ELSE IF Signing(session, remote_ok) = "SignerError"
    THEN /\ outcome' = Ended("delete_comment", session, "SignerError")
         /\ UNCHANGED <<relay_deletions, cache_rows, comment_cache, published>>
    ELSE LET signed == [pubkey |-> SignerPubkey(session),
                        targets |-> <<comment_id>>, sig_ok |-> TRUE]
         IN  /\ published' = published \cup {[kind |-> "5", by |-> signed.pubkey]}
             /\ relay_deletions' = IF relay_ok /\ relay_deletions = << >>
                                   THEN <<signed>> ELSE relay_deletions
             /\ cache_rows' = IF commit_ok
                              THEN SelectSeq(cache_rows,
                                             LAMBDA row : row.id # comment_id)
                              ELSE cache_rows
             /\ comment_cache' = Invalidated
             /\ outcome' = Ended("delete_comment", session, "none")

DeleteComment(sessions) ==
    /\ \E comment_id \in UsedIds, session \in sessions,
          remote_ok \in BOOLEAN, relay_ok \in BOOLEAN, commit_ok \in BOOLEAN :
          delete_comment(comment_id, session, remote_ok, relay_ok, commit_ok)
    /\ UNCHANGED <<relay_notes, user_blocks, thread, built, essay_versions,
                   clientVars, failRun, lastFailAt, eventVars, engageVars,
                   essayVars>>

(* SpecThread: the relays answer with up to three comments of any shape,    *)
(* and the viewer, who may block an author, asks for the thread once        *)
OtherIds(id) == { NoteIds[i] : i \in DOMAIN NoteIds } \ {id}

ThreadNotes ==
    UNION { [id : {id}, pubkey : Authors, created_at : Stamps,
             reply : {<< >>, <<AbsentId>>} \cup { <<p>> : p \in OtherIds(id) }
                     \cup (IF id = "C" THEN {<<"A", "B">>} ELSE {}),
             sig_ok : {TRUE}]
            : id \in { NoteIds[i] : i \in DOMAIN NoteIds } }

FetchThread ==
    /\ built = NotBuilt
    /\ \E viewer \in Viewers :
          fetch_comments_for_essay(viewer, <<"r1">>, TRUE, TRUE, TRUE)
    /\ UNCHANGED <<relay_notes, relay_deletions, user_blocks, otherVars>>

NextT ==
    \/ \E note \in ThreadNotes : built = NotBuilt /\ RelayStoresNote(note)
    \/ built = NotBuilt /\ UserBlocks("P")
    \/ FetchThread

SpecThread == Init /\ [][NextT]_vars

----------------------------------------------------------------------------
(* Claims about the comment thread *)

(* the thread at hand was built by the latest call, not served from cache *)
FreshlyBuilt == built # NotBuilt /\ ~built.hit

InForest == DOMAIN thread.nodes

(* how often c is listed in the sequence s *)
Times(c, s) == Cardinality({ i \in DOMAIN s : s[i] = c })

Ascending(s) ==
    \A i, j \in DOMAIN s :
        i < j => thread.nodes[s[i]].created_at <= thread.nodes[s[j]].created_at

EveryListAscending ==
    /\ Ascending(thread.roots)
    /\ \A c \in InForest : Ascending(thread.nodes[c].replies)

(* ev is listed once by the comment p, and by nothing else *)
AttachedOnlyTo(ev, p) ==
    /\ p \in InForest
    /\ Times(ev.id, thread.nodes[p].replies) = 1
    /\ \A c \in InForest \ {p} : ev.id \notin Range(thread.nodes[c].replies)
    /\ ev.id \notin Range(thread.roots)

RootOnly(ev) ==
    /\ Times(ev.id, thread.roots) = 1
    /\ \A c \in InForest : ev.id \notin Range(thread.nodes[c].replies)

IsExample(evs) ==
    /\ Len(evs) = 3
    /\ evs[1].reply = << >> /\ evs[1].created_at = 1
    /\ evs[2].reply = <<"A">> /\ evs[2].created_at = 2
    /\ evs[3].reply = <<"B">> /\ evs[3].created_at = 3

ExampleThreaded ==
    /\ thread.roots = <<"A">>
    /\ InForest = {"A", "B", "C"}
    /\ thread.nodes["A"].replies = <<"B">>
    /\ thread.nodes["B"].replies = <<"C">>
    /\ thread.nodes["C"].replies = << >>

(* C18 as stated: in the forest fetch_comments_for_essay builds, every      *)
(* comment with a reply tag is in the replies of the comment the tag names  *)
(* and nowhere else, the comments without a reply tag are the roots, every  *)
(* list ascends by created_at, and A, B, C thread as A > B > C.             *)
C18_EveryReplyAttached ==
    FreshlyBuilt =>
        /\ \A i \in DOMAIN built.events :
              LET ev == built.events[i]
              IN  IF ev.reply = << >> THEN RootOnly(ev)
                  ELSE \A j \in DOMAIN ev.reply : AttachedOnlyTo(ev, ev.reply[j])
        /\ EveryListAscending
        /\ IsExample(built.events) => ExampleThreaded

(* C18 as amended: the same, for the comments of authors the viewer has not *)
(* blocked, with the last reply tag deciding, and for the replies whose     *)
(* named comment is itself in the forest; a reply whose named comment is    *)
(* not in the forest is not returned.                                       *)
C18_KeptRepliesAttached ==
    FreshlyBuilt =>
        /\ \A i \in DOMAIN built.events :
              LET ev == built.events[i]
              IN  IF ev.pubkey \in built.blocked THEN ev.id \notin InForest
                  ELSE IF ev.reply = << >> THEN RootOnly(ev)
                  ELSE IF ParentId(ev) \in InForest
                       THEN AttachedOnlyTo(ev, ParentId(ev))
                       ELSE ev.id \notin InForest
        /\ Range(thread.roots) \subseteq InForest
        /\ InForest \subseteq { built.events[i].id : i \in DOMAIN built.events }
        /\ EveryListAscending
        /\ (IsExample(built.events) /\ built.blocked = {}) => ExampleThreaded

C18_Witness ==
    /\ FreshlyBuilt
    /\ IsExample(built.events)
    /\ built.blocked = {}
    /\ ExampleThreaded

----------------------------------------------------------------------------
(* SpecComments: two comments at most, one deletion event, one viewer who   *)
(* may block an author, calls of the three operations of CommentService in  *)
(* any order, the clock stepping over the expiry of the comment cache       *)

CommentNotes ==
    [id : {"A"}, pubkey : Authors, created_at : {1}, reply : {<< >>},
     sig_ok : BOOLEAN]
    \cup [id : {"B"}, pubkey : {"Q"}, created_at : {2},
          reply : {<< >>, <<"A">>}, sig_ok : BOOLEAN]

CommentDeletions ==
    [pubkey : {"Q"}, targets : {<<"A">>, <<"B">>}, sig_ok : BOOLEAN]

(* the relays and the durability cache fill before the first call *)
NextV ==
    \/ \E note \in CommentNotes : built = NotBuilt /\ RelayStoresNote(note)
    \/ \E deletion \in CommentDeletions :
          built = NotBuilt /\ RelayStoresDeletion(deletion)
    \/ built = NotBuilt /\ NextId \in {"A", "B"} /\ PublishComment({"local"})
    \/ UserBlocks("P")
    \/ TickV
    \/ FetchView

SpecComments == Init /\ [][NextV]_vars

----------------------------------------------------------------------------
(* services/engagement.py, for the one essay whose event id is X.  The      *)
(* reactions and zap receipts are events as in nostr/event.py, so that      *)
(* verify_event is applied to them as it is written.                        *)

EssayId == "X"

(* a tag ["name", "value"] is written "name:value" *)
TagParts(tag) ==
    CASE tag = "e:X" -> <<"e", "X">>
      [] tag = "e:Z" -> <<"e", "Z">>
      [] tag = "p:Y" -> <<"p", "Y">>
      [] tag = "amount:2500" -> <<"amount", "2500">>
      [] tag = "amount:lots" -> <<"amount", "lots">>

(* int(tag[1]) // 1000, and 0 on ValueError; max(amount, 0) *)
AmountSats(value) == IF value = "2500" THEN 2500 \div 1000 ELSE 0

(* the first amount tag decides *)
RECURSIVE ZapAmount(_)
ZapAmount(tags) ==
    IF tags = << >> THEN 0
    ELSE IF TagParts(Head(tags))[1] = "amount"
    THEN AmountSats(TagParts(Head(tags))[2])
    ELSE ZapAmount(Tail(tags))

(* target_ids: the ids of the e tags, one entry per tag, or the requested  *)
(* ids when there are none                                                  *)
TargetIds(tags) ==
    LET e_tags == SelectSeq(tags, LAMBDA tag : TagParts(tag)[1] = "e")
        named == [i \in DOMAIN e_tags |-> TagParts(e_tags[i])[2]]
    IN  IF named = << >> THEN <<EssayId>> ELSE named

(* lines 146-172: one event of the answer.  acc holds the likes and zaps   *)
(* counted so far and the exception that has left the loop, if any.         *)
CountEvent(acc, ev) ==
    IF acc.raised # "none" THEN acc
    ELSE IF verify_event(ev) \in {"TypeError", "AssertionError"}
    THEN [acc EXCEPT !.raised = verify_event(ev)]
    ELSE IF verify_event(ev) = "false" THEN acc
    ELSE LET target_ids == TargetIds(GetField(ev, "tags", << >>))
             \* for eid in target_ids: the passes that are about the essay
             passes == Cardinality({ i \in DOMAIN target_ids :
                                       target_ids[i] = EssayId })
         IN  IF passes = 0 THEN acc
             ELSE IF ev.kind = "7"
             THEN [acc EXCEPT !.likes = @ \cup {ev.pubkey}]
             ELSE IF ev.kind = "9735"
             THEN [acc EXCEPT
                     !.count = @ + passes,
                     !.sats = @ + passes * ZapAmount(GetField(ev, "tags", << >>))]
             ELSE acc

RECURSIVE CountEvents(_, _)
CountEvents(acc, events) ==
    IF events = << >> THEN acc
    ELSE CountEvents(CountEvent(acc, Head(events)), Tail(events))

(* hydrate_from_relays([X], relays); got_events: fetch_events reached the   *)
(* relays.  The likes recorded before are merged back at the end, which an  *)
(* exception out of the loop skips.                                         *)
hydrate_from_relays(got_events) ==
    LET existing_likes == likes
        events == IF got_events THEN relay_receipts ELSE << >>
        counted == CountEvents([likes |-> {}, count |-> 0, sats |-> 0,
                                raised |-> "none"], events)
    IN  /\ likes' = IF counted.raised = "none"
                    THEN counted.likes \cup existing_likes
                    ELSE counted.likes
        /\ zaps' = [count |-> counted.count, sats |-> counted.sats]
        /\ outcome' = Ended("hydrate_from_relays", "", counted.raised)

Hydrate ==
    /\ \E got_events \in BOOLEAN : hydrate_from_relays(got_events)
    /\ UNCHANGED <<relay_receipts, essay_versions, published, commentVars,
                   clientVars, failRun, lastFailAt, eventVars, essayVars,
                   hydrating>>

(* viewer.npub of the session *)
Npub(session) == "npub:" \o session

(* publish_reaction and publish_zap_request: nothing is raised; the event   *)
(* goes to relay_client.publish_event when it could be signed               *)
publish_reaction(kind, session, remote_ok) ==
    IF Signing(session, remote_ok) = "SignerError"
    THEN UNCHANGED published
    ELSE published' = published \cup {[kind |-> kind, by |-> Npub(session)]}

(* toggle_like *)
toggle_like(session, remote_ok) ==
    /\ IF Npub(session) \in likes
       THEN /\ likes' = likes \ {Npub(session)}
            /\ UNCHANGED published
       ELSE /\ likes' = likes \cup {Npub(session)}
            /\ publish_reaction("7", session, remote_ok)
    /\ outcome' = Ended("toggle_like", session, "none")

(* add_zap *)
add_zap(session, remote_ok) ==
    /\ publish_reaction("9734", session, remote_ok)
    /\ outcome' = Ended("add_zap", session, "none")
    /\ UNCHANGED likes

ToggleLike(sessions) ==
    /\ \E session \in sessions, remote_ok \in BOOLEAN : toggle_like(session, remote_ok)
    /\ UNCHANGED <<relay_receipts, zaps, essay_versions, commentVars,
                   clientVars, failRun, lastFailAt, eventVars, essayVars,
                   hydrating>>

AddZap(sessions) ==
    /\ \E session \in sessions, remote_ok \in BOOLEAN : add_zap(session, remote_ok)
    /\ UNCHANGED <<relay_receipts, zaps, essay_versions, commentVars,
                   clientVars, failRun, lastFailAt, eventVars, essayVars,
                   hydrating>>

(* the relays hold reactions and zap receipts, some of them not as signed *)
ReceiptDrafts ==
    [pubkey : PubKeys, created_at : {"1"}, kind : {"7"}, tags : {<<"e:X">>},
     content : {"+"}]
    \cup [pubkey : PubKeys, created_at : {"1"}, kind : {"9735"},
          tags : {<<"e:X">>, <<"e:X", "amount:2500">>}, content : {""}]

ReceiptChanges == {"none", "content", "no_sig", "sig_type", "sig_other"}

KeyOf(pubkey) == CHOOSE sk \in Keys : derive_pubkey_hex(sk) = pubkey

Receipts ==
    { IF change = "none" THEN sign_event(KeyOf(draft.pubkey), draft)
      ELSE Changed(sign_event(KeyOf(draft.pubkey), draft), change)
      : draft \in ReceiptDrafts, change \in ReceiptChanges }

RelayStoresReceipt(limit) ==
    /\ Len(relay_receipts) < limit
    /\ \E receipt \in Receipts : relay_receipts' = Append(relay_receipts, receipt)
    /\ UNCHANGED <<likes, zaps, writeVars, commentVars,
                   clientVars, failRun, lastFailAt, eventVars, essayVars,
                   hydrating>>

----------------------------------------------------------------------------
(* SpecAggregate: the relays hold comments, a deletion and a reaction or    *)
(* zap receipt, some of which fail verify_event; the thread is fetched and  *)
(* the counts are hydrated, once each                                       *)

NextA ==
    \/ \E note \in CommentNotes : built = NotBuilt /\ RelayStoresNote(note)
    \/ \E deletion \in CommentDeletions :
          built = NotBuilt /\ RelayStoresDeletion(deletion)
    \/ outcome = NoOutcome /\ RelayStoresReceipt(1)
    \/ built = NotBuilt /\ FetchView
    \/ outcome = NoOutcome /\ Hydrate

SpecAggregate == Init /\ [][NextA]_vars

VerifiedReceipts(kind) ==
    { i \in DOMAIN relay_receipts :
        /\ verify_event(relay_receipts[i]) = "true"
        /\ relay_receipts[i].kind = kind }

(* C13: an event from a relay that fails verify is not shown in the thread, *)
(* marks no comment as deleted and is counted as no like and no zap, and    *)
(* dropping it raises no exception.                                         *)
C13_UnverifiedNeverCounts ==
    /\ FreshlyBuilt =>
          /\ \A i \in DOMAIN built.events :
                built.events[i].id \in InForest => built.events[i].sig_ok
          /\ \A c \in InForest :
                thread.nodes[c].deleted =>
                    \E j \in DOMAIN built.deletions :
                        /\ built.deletions[j].sig_ok
                        /\ c \in Range(built.deletions[j].targets)
    /\ outcome.op = "hydrate_from_relays" =>
          /\ outcome.raised = "none"
          /\ likes \subseteq { relay_receipts[i].pubkey : i \in VerifiedReceipts("7") }
          /\ zaps.count <= Cardinality(VerifiedReceipts("9735"))

----------------------------------------------------------------------------
(* Claims about deletions and blocks in the thread *)

(* a deletion event among ds tags the comment c *)
Tagged(c, ds) == \E j \in DOMAIN ds : c \in Range(ds[j].targets)

(* the step is a call that built the thread anew *)
BuildsThread == built' # built /\ ~built'.hit

RowIds(rows) == Range(IdsOf(rows))

Untouched(ev) ==
    /\ ev.id \in DOMAIN thread'.nodes => ~thread'.nodes[ev.id].deleted
    /\ ev.id \in RowIds(cache_rows) => ev.id \in RowIds(cache_rows')

(* C19 as stated: a merged comment X that a fetched deletion event tags is  *)
(* in the view, flagged deleted, and has no durability row when the call    *)
(* returns; a comment no fetched deletion event tags is not flagged and     *)
(* keeps its row.                                                           *)
C19_DeletedKeptAndPurged ==
    [][BuildsThread =>
        \A i \in DOMAIN built'.events :
            LET ev == built'.events[i]
            IN  IF Tagged(ev.id, built'.deletions)
                THEN /\ ev.id \in DOMAIN thread'.nodes
                     /\ thread'.nodes[ev.id].deleted
                     /\ ev.id \notin RowIds(cache_rows')
                ELSE Untouched(ev)]_vars

(* C19 as amended: X is in the view, flagged deleted, when its author is    *)
(* not blocked by the viewer and X is a root or a reply to a comment in the *)
(* view, and is absent otherwise; its durability row is gone when the       *)
(* commit of the deletes succeeded, and every row is kept when it failed.   *)
C19_DeletedFlaggedWhereShown ==
    [][BuildsThread =>
        /\ \A i \in DOMAIN built'.events :
              LET ev == built'.events[i]
                  shown == /\ ev.pubkey \notin built'.blocked
                           /\ \/ ev.reply = << >>
                              \/ ParentId(ev) \in DOMAIN thread'.nodes
              IN  IF Tagged(ev.id, built'.deletions)
                  THEN /\ ev.id \in DOMAIN thread'.nodes <=> shown
                       /\ shown => thread'.nodes[ev.id].deleted
                       /\ built'.committed => ev.id \notin RowIds(cache_rows')
                  ELSE Untouched(ev)
        /\ ~built'.committed => cache_rows' = cache_rows]_vars

C19_Witness ==
    /\ FreshlyBuilt
    /\ "A" \in Range(built.rows)
    /\ Tagged("A", built.deletions)
    /\ "A" \in InForest
    /\ thread.nodes["A"].deleted
    /\ "A" \notin RowIds(cache_rows)
    /\ "B" \in InForest
    /\ ~thread.nodes["B"].deleted
    /\ "B" \in RowIds(cache_rows)

(* a call returned: the thread at hand was just handed to the viewer *)
Returns == built' # built

(* C20: a thread fetch_comments_for_essay returns to a viewer holds no      *)
(* comment by an author on that viewer's block list, as a root, as a reply  *)
(* or as a deleted placeholder, also when it is served from the comment     *)
(* cache.                                                                   *)
C20_BlockedNeverReturned ==
    [][Returns =>
        \A c \in DOMAIN thread'.nodes :
            <<built'.viewer, thread'.nodes[c].pubkey>> \notin user_blocks']_vars

----------------------------------------------------------------------------
(* main.py: publish, publish_draft and revert_revision.  The three build a  *)
(* template on the server and then share, line for line, the check of the   *)
(* event a nip07 browser signed; they differ in what a SignerError of a     *)
(* signing session becomes.  shape tells what the signed_event form field   *)
(* holds: nothing, text that is not JSON, a JSON array, or the object       *)
(* `event`.  status is the HTTP status of the response.                     *)

EssayOps == {"publish", "publish_draft", "revert"}

FormShapes == {"absent", "not_json", "array", "object"}

(* signer.get_public_key() of the session *)
EssayAuthor(session) == IF session = "local" THEN "pkB" ELSE "pkA"

(* build_long_form_event_template, for the form the author filled in *)
Articles ==
    [pubkey : PubKeys, created_at : {"1"}, kind : {"30023"},
     tags : {<<"d:essay", "title:T">>}, content : {"a", "b"}]

Replied(op, session, shape, expected, raised, status) ==
    [op |-> op, session |-> session, raised |-> raised,
     status |-> status, shape |-> shape, expected |-> expected]

(* EssayService.publish: the version row, then relay_client.publish_event *)
StoreVersion(signed) ==
    /\ essay_versions' = essay_versions \cup {signed.id}
    /\ published' = published \cup {[kind |-> "30023", by |-> signed.pubkey]}

Refused == UNCHANGED <<essay_versions, published>>

submit_essay(op, session, shape, template, remote_ok) ==
    LET expected_id == compute_event_id(
                           serialize_event(template.pubkey, template.created_at,
                                           template.kind, template.tags,
                                           template.content))
        reply(raised, status) ==
            outcome' = Replied(op, session, shape, expected_id, raised, status)
    IN  IF session = "readonly"
        THEN reply("none", 403) /\ Refused
        ELSE IF signer_from_session(session) = "SignerError"
        THEN reply("SignerError", 500) /\ Refused
        ELSE IF session = "nip07"
        THEN IF shape \in {"absent", "not_json"}
             THEN reply("none", 400) /\ Refused
             ELSE IF shape = "array"
             THEN reply("AttributeError", 500) /\ Refused
             ELSE IF GetField(event, "id", NoDigest) # expected_id
             THEN reply("none", 400) /\ Refused
             ELSE IF verify_event(event) = "false"
             THEN reply("none", 400) /\ Refused
             ELSE IF verify_event(event) # "true"
             THEN reply(verify_event(event), 500) /\ Refused
             ELSE reply("none", 303) /\ StoreVersion(event)
        ELSE IF signer_sign_event(signer_from_session(session), remote_ok)
                = "SignerError"
        THEN reply("SignerError", IF op = "publish" THEN 400 ELSE 500) /\ Refused
        ELSE /\ reply("none", 303)
             /\ StoreVersion(sign_event(KeyOf(template.pubkey), template))

SubmitEssay(sessions) ==
    /\ \E op \in EssayOps, session \in sessions, shape \in FormShapes,
          template \in Articles, remote_ok \in BOOLEAN :
          /\ template.pubkey = EssayAuthor(session)
          /\ shape = "object" <=> event # NoEvent
          /\ submit_essay(op, session, shape, template, remote_ok)
    /\ UNCHANGED <<clientVars, failRun, lastFailAt, eventVars, commentVars,
                   engageVars, essayVars>>

(* the browser signs an article, with the key of the session or another *)
ClientSigns ==
    /\ event = NoEvent
    /\ \E sk \in Keys, draft \in Articles :
          /\ event' = sign_event(sk, draft)
          /\ made' = [by |-> sk, change |-> "none", rehash |-> FALSE]
    /\ verdict' = "none"
    /\ UNCHANGED <<clientVars, failRun, lastFailAt, commentVars, engageVars,
                   writeVars, essayVars>>

(* SpecSubmit: a nip07 session submits what the browser made of an article *)
NextN ==
    \/ ClientSigns
    \/ outcome = NoOutcome /\ ChangeEvent
    \/ outcome = NoOutcome /\ SubmitEssay({"nip07"})

SpecSubmit == Init /\ [][NextN]_vars

(* the step is the answer to a submission of a nip07 session *)
Nip07Answered ==
    /\ outcome' # outcome
    /\ outcome'.op \in EssayOps
    /\ outcome'.session = "nip07"

(* the submitted event has the id of the server's template and verifies *)
Acceptable ==
    /\ outcome'.shape = "object"
    /\ GetField(event, "id", NoDigest) = outcome'.expected
    /\ verify_event(event) = "true"

(* C14: in a nip07 session publish, publish-draft and revert store an essay *)
(* version and send an event to relays only if the signed event has the id  *)
(* computed from the server-built template and verify(event) is true; in    *)
(* every other case the answer is status 400, no version is stored and      *)
(* nothing is sent.                                                         *)
C14_StoredOnlyIfVerified ==
    [][Nip07Answered =>
        /\ (essay_versions' # essay_versions \/ published' # published)
              => Acceptable
        /\ ~Acceptable =>
              /\ outcome'.status = 400
              /\ UNCHANGED <<essay_versions, published>>]_vars

----------------------------------------------------------------------------
(* SpecWrite: the relays hold some comments; then one operation that needs  *)
(* a signature is asked for by a session of any mode (a like may be toggled *)
(* again).  like_post and the zap route admit signing sessions only.        *)

SigningSessions == SessionModes \ {"readonly"}

NextW ==
    \/ \E note \in CommentNotes : outcome = NoOutcome /\ RelayStoresNote(note)
    \/ outcome = NoOutcome /\ PublishComment(SessionModes)
    \/ outcome = NoOutcome /\ DeleteComment(SessionModes)
    \/ outcome.op \in {"", "toggle_like"} /\ ToggleLike(SigningSessions)
    \/ outcome = NoOutcome /\ AddZap(SigningSessions)
    \/ outcome = NoOutcome /\ SubmitEssay(SessionModes \ {"nip07"})

SpecWrite == Init /\ [][NextW]_vars

(* the session cannot get the event signed on the server *)
CannotSign == {"nip07", "nip46_partial"}

(* the step is an operation that needs a signature, by such a session *)
UnsignedWrite ==
    /\ outcome'.session \in CannotSign
    /\ \/ outcome' # outcome
       \/ likes' # likes
    /\ outcome'.op = "toggle_like" => Npub(outcome'.session) \notin likes

(* C15: when no signer can be built for the session or signEvent fails, a   *)
(* write operation that needs a signature reports the signing error and     *)
(* changes nothing: no relay publish, no like, zap or comment recorded.     *)
C15_SigningErrorReported ==
    [][UnsignedWrite =>
        /\ outcome'.raised = "SignerError"
        /\ UNCHANGED <<likes, zaps, published, cache_rows, relay_notes,
                       relay_deletions, essay_versions>>]_vars

----------------------------------------------------------------------------
(* SpecMerge: what fetch_events returns may hold an id several times, once  *)
(* per relay that sent it, and events without an id; the durability cache   *)
(* holds an event id once (CommentCache.event_id is unique).  The viewer    *)
(* asks for the thread once, with or without relays, and the relays answer  *)
(* or fail.                                                                 *)

MergeNotes ==
    [id : {"A", "B", NoId}, pubkey : {"Q"}, created_at : {1, 2},
     reply : {<< >>}, sig_ok : {TRUE}]

MaxRelayEvents == 3     \* events the relays return in SpecMerge

MaxRows == 2            \* rows of the durability cache in SpecMerge

(* one more EVENT frame reaches fetch_events *)
RelaySendsEvent(note) ==
    /\ Len(relay_notes) < MaxRelayEvents
    /\ relay_notes' = Append(relay_notes, note)
    /\ UNCHANGED <<relay_deletions, cache_rows, user_blocks, comment_cache,
                   thread, built, otherVars>>

(* _store_local_cache committed a row at some earlier time *)
RowStored(note) ==
    /\ Len(cache_rows) < MaxRows
    /\ note.id \notin Range(IdsOf(cache_rows))
    /\ cache_rows' = Append(cache_rows, note)
    /\ UNCHANGED <<relay_notes, relay_deletions, user_blocks, comment_cache,
                   thread, built, otherVars>>

FetchMerged ==
    /\ built = NotBuilt
    /\ \E relays \in {<< >>, <<"r1">>}, got_notes \in BOOLEAN :
          fetch_comments_for_essay("V", relays, got_notes, TRUE, TRUE)
    /\ UNCHANGED <<relay_notes, relay_deletions, user_blocks, otherVars>>

NextM ==
    \/ \E note \in MergeNotes : built = NotBuilt /\ RelaySendsEvent(note)
    \/ \E note \in MergeNotes : built = NotBuilt /\ RowStored(note)
    \/ FetchMerged

SpecMerge == Init /\ [][NextM]_vars

(* the place of the first event of the id in the sequence *)
FirstAt(evs, id) ==
    CHOOSE k \in DOMAIN evs :
        evs[k].id = id /\ \A m \in DOMAIN evs : evs[m].id = id => k <= m

(* the merged events are the first copies of the ids of the input, in the   *)
(* order of the input, and none is without an id                            *)
FirstCopies(merged, input) ==
    /\ \A i, j \in DOMAIN merged : i # j => merged[i].id # merged[j].id
    /\ \A i \in DOMAIN merged :
          /\ merged[i].id # NoId
          /\ \E k \in DOMAIN input : merged[i] = input[k]
          /\ merged[i] = input[FirstAt(input, merged[i].id)]
    /\ \A k \in DOMAIN input :
          input[k].id # NoId => \E i \in DOMAIN merged : merged[i].id = input[k].id
    /\ \A i, j \in DOMAIN merged :
          i < j => FirstAt(input, merged[i].id) < FirstAt(input, merged[j].id)

(* every comment of the forest is listed once and shows its merged event *)
ForestOf(forest, merged) ==
    \A c \in DOMAIN forest.nodes :
        /\ Times(c, forest.roots)
             + Cardinality({ p \in DOMAIN forest.nodes :
                               c \in Range(forest.nodes[p].replies) }) = 1
        /\ \A p \in DOMAIN forest.nodes : Times(c, forest.nodes[p].replies) <= 1
        /\ \E i \in DOMAIN merged :
              /\ merged[i].id = c
              /\ merged[i].created_at = forest.nodes[c].created_at
              /\ merged[i].pubkey = forest.nodes[c].pubkey

(* C21: a call of fetch_comments_for_essay that builds the thread merges    *)
(* the relay result and the rows of the durability cache, relay result      *)
(* first, into one event per id, the first seen; events without an id are   *)
(* dropped; every comment returned is one of the merged events, once; and   *)
(* with an empty relay result the merged events are the rows of the cache.  *)
C21_FirstSeenWins ==
    [][BuildsThread =>
          /\ FirstCopies(built'.events, built'.relay_events \o cache_rows)
          /\ ForestOf(thread', built'.events)
          /\ built'.relay_events = << >> =>
                built'.events = SelectSeq(cache_rows, LAMBDA row : row.id # NoId)
      ]_vars

(* the relays sent the id A twice with different content and an event       *)
(* without an id, the cache holds A as well, and the first copy is shown    *)
C21_Witness ==
    /\ FreshlyBuilt
    /\ Len(built.relay_events) = 3
    /\ built.relay_events[1].id = "A"
    /\ built.relay_events[2].id = NoId
    /\ built.relay_events[3].id = "A"
    /\ built.relay_events[3].created_at # built.relay_events[1].created_at
    /\ \E i \in DOMAIN cache_rows :
          cache_rows[i].id = "A" /\ cache_rows[i].created_at # built.relay_events[1].created_at
    /\ \E i \in DOMAIN cache_rows : cache_rows[i].id = "B"
    /\ IdsOf(built.events) = <<"A", "B">>
    /\ thread.roots = <<"A", "B">>
    /\ thread.nodes["A"].created_at = built.relay_events[1].created_at

----------------------------------------------------------------------------
(* SpecZaps: fetch_events returns up to three zap receipts, one entry per   *)
(* relay that sent the receipt, so that a receipt may be there twice; then  *)
(* the counts are hydrated, once                                            *)

ZapDrafts ==
    [pubkey : {"pkA"}, created_at : {"1"}, kind : {"9735"},
     tags : {<<"e:X">>, <<"e:X", "amount:2500">>, <<"e:X", "e:X", "amount:2500">>,
             <<"e:Z", "amount:2500">>, <<"e:X", "amount:lots">>},
     content : {""}]

ZapReceipts ==
    { IF change = "none" THEN sign_event(KeyOf(draft.pubkey), draft)
      ELSE Changed(sign_event(KeyOf(draft.pubkey), draft), change)
      : draft \in ZapDrafts, change \in {"none", "no_sig"} }

(* one more EVENT frame with a receipt reaches fetch_events *)
RelaySendsReceipt(receipts, limit) ==
    /\ Len(relay_receipts) < limit
    /\ \E receipt \in receipts : relay_receipts' = Append(relay_receipts, receipt)
    /\ UNCHANGED <<likes, zaps, writeVars, commentVars,
                   clientVars, failRun, lastFailAt, eventVars, essayVars,
                   hydrating>>

(* hydrate_from_relays when fetch_events reached the relays *)
HydrateAnswered ==
    /\ hydrate_from_relays(TRUE)
    /\ UNCHANGED <<relay_receipts, essay_versions, published, commentVars,
                   clientVars, failRun, lastFailAt, eventVars, essayVars,
                   hydrating>>

NextZ ==
    \/ outcome = NoOutcome /\ RelaySendsReceipt(ZapReceipts, 3)
    \/ outcome = NoOutcome /\ HydrateAnswered

SpecZaps == Init /\ [][NextZ]_vars

(* the verified zap receipts among the fetched events that tag the essay *)
ZapsOfEssay ==
    { i \in DOMAIN relay_receipts :
        /\ verify_event(relay_receipts[i]) = "true"
        /\ relay_receipts[i].kind = "9735"
        /\ "e:X" \in Range(relay_receipts[i].tags) }

(* floor(amount_msat / 1000) of the receipt *)
SatsOf(receipt) ==
    IF "amount:2500" \in Range(receipt.tags) THEN 2500 \div 1000 ELSE 0

RECURSIVE SumSats(_)
SumSats(receipts) ==
    IF receipts = {} THEN 0
    ELSE LET r == CHOOSE x \in receipts : TRUE
         IN  SatsOf(r) + SumSats(receipts \ {r})

(* C22: after hydrate_from_relays that ended without an exception,          *)
(* zap_count is the number of distinct verified zap receipts (by event id)  *)
(* among the fetched events that tag the essay, and total_sats is the sum   *)
(* of floor(amount_msat / 1000) over them; a receipt that several relays    *)
(* returned, or that tags the essay twice, counts once.                     *)
C22_ZapsCountedOnce ==
    (outcome.op = "hydrate_from_relays" /\ outcome.raised = "none") =>
        LET distinct == { relay_receipts[i] : i \in ZapsOfEssay }
        IN  /\ zaps.count = Cardinality({ r.id : r \in distinct })
            /\ zaps.sats = SumSats(distinct)

----------------------------------------------------------------------------
(* services/essays.py and the essay and draft routes of main.py.  A         *)
(* session is named by its pubkey: session_data.pubkey_hex, which is also   *)
(* signer.get_public_key() (nip07, nip46; for a local session as long as    *)
(* settings.nostr_secret is the one of the login).  Every form carries an   *)
(* identifier.  A request runs from its first line to its answer without    *)
(* another request in between.  An optional value (an event id, a row) is   *)
(* the empty sequence or a sequence of one.                                 *)

MaxVersions == 3        \* EssayVersion rows in one behaviour (SpecRevise)

MaxVersionsD == 1       \* EssayVersion rows in one behaviour (SpecDrafts)

MaxVersionsV == 3       \* EssayVersion rows in one behaviour (SpecVersions)

MaxDrafts == 2          \* Draft rows in one behaviour

Forms ==
    { [title |-> "T1", summary |-> "S1", content |-> "c1"],
      [title |-> "T2", summary |-> "S2", content |-> "c2"] }

(* who asks, for which identifiers, with which forms *)
Everyone == [users |-> PubKeys, identifiers |-> Identifiers, forms |-> Forms]

(* how signing ends: the handler holds a signed event, or answers 400       *)
(* (nip07 checks, SignerError in /publish), or an exception leaves it       *)
Signings == {"signed", "refused", "failed"}

SigningStatus(signing) == IF signing = "refused" THEN 400 ELSE 500

(* find_essay_by_identifier *)
find_essay_by_identifier(identifier) ==
    IF essays[identifier] = NoEssay THEN << >> ELSE <<essays[identifier]>>

(* ensure_identifier_available raises PermissionError *)
BelongsToAnother(identifier, author_pubkey) ==
    /\ find_essay_by_identifier(identifier) # << >>
    /\ essays[identifier].author_pubkey # author_pubkey

VersionsOf(identifier) ==
    SelectSeq(version_rows, LAMBDA row : row.essay = identifier)

(* latest_version: order_by(version.desc()).limit(1) *)
latest_version(identifier) ==
    LET rows == VersionsOf(identifier)
    IN  IF rows = << >> THEN << >>
        ELSE <<rows[CHOOSE i \in DOMAIN rows :
                       \A j \in DOMAIN rows : rows[j].version <= rows[i].version]>>

(* variant: the number of rows of the essay so far *)
next_version_by_count(identifier) == Len(VersionsOf(identifier))

(* next_version *)
next_version(identifier) ==
    IF latest_version(identifier) = << >> THEN 1
    ELSE latest_version(identifier)[1].version + 1

(* prepare_publication: version_num and supersedes *)
prepare_publication(identifier) ==
    LET prev_version == latest_version(identifier)
    IN  [version_num |-> next_version(identifier),
         supersedes |-> IF prev_version # << >> /\ prev_version[1].status = "published"
                        THEN <<prev_version[1].event_id>> ELSE << >>]

(* build_long_form_event_template and the id of the signed event *)
EssayEvent(pubkey, identifier, title, summary, content, prepared) ==
    compute_event_id([pubkey |-> pubkey, d |-> identifier, title |-> title,
                      summary |-> summary, content |-> content,
                      version |-> prepared.version_num,
                      supersedes |-> prepared.supersedes])

(* get_or_create_essay and EssayService.publish: the essay row, the new     *)
(* version row, the commit, and relay_client.publish_event                  *)
EssayService_publish(identifier, pubkey, title, summary, content) ==
    LET prepared == prepare_publication(identifier)
        event_id == EssayEvent(pubkey, identifier, title, summary, content, prepared)
    IN  /\ essays' =
              [essays EXCEPT ![identifier] =
                  [author_pubkey |-> IF @ = NoEssay THEN pubkey ELSE @.author_pubkey,
                   title |-> title, summary |-> summary,
                   latest_version |-> prepared.version_num,
                   latest_event_id |-> <<event_id>>]]
        /\ version_rows' =
              Append(version_rows,
                     [essay |-> identifier, version |-> prepared.version_num,
                      content |-> content, summary |-> summary,
                      status |-> "published", event_id |-> event_id,
                      supersedes_event_id |-> prepared.supersedes])
        /\ published' = published \cup {[kind |-> "30023", by |-> pubkey]}

(* session.get(models.Draft, draft_id); draft_id 0: the form has none *)
get_draft(draft_id) ==
    IF draft_id \in DOMAIN drafts /\ ~drafts[draft_id].deleted
    THEN <<drafts[draft_id]>> ELSE << >>

(* how EssayService.save_draft ends *)
SaveDraftEnds(identifier, author_pubkey, draft_id) ==
    IF BelongsToAnother(identifier, author_pubkey) THEN "PermissionError"
    ELSE IF get_draft(draft_id) # << >>
            /\ get_draft(draft_id)[1].author_pubkey # author_pubkey
    THEN "NostrKeyError"
    ELSE "stored"

(* EssayService.save_draft, lines 84-103 *)
save_draft(identifier, form, author_pubkey, draft_id) ==
    IF get_draft(draft_id) # << >>
    THEN [drafts EXCEPT ![draft_id] =
            [@ EXCEPT !.title = form.title, !.content = form.content,
                      !.summary = form.summary, !.identifier = identifier]]
    ELSE Append(drafts,
                [author_pubkey |-> author_pubkey, title |-> form.title,
                 content |-> form.content, summary |-> form.summary,
                 identifier |-> identifier, published_event_id |-> << >>,
                 deleted |-> FALSE])

(* the answer of a request; sent: an event went to relay_client *)
Answer(op, by, identifier, draft_id, event_id, status, raised, sent) ==
    request' = [op |-> op, by |-> by, identifier |-> identifier,
                draft_id |-> draft_id, event_id |-> event_id,
                status |-> status, raised |-> raised, sent |-> sent]

NothingStored == UNCHANGED <<essays, version_rows, drafts, published>>

(* POST /publish *)
publish(by, identifier, form, action, draft_id, signing) ==
    LET op == IF action = "draft" THEN "publish_as_draft" ELSE "publish"
        answer(status, raised, sent) ==
            Answer(op, by, identifier, draft_id, << >>, status, raised, sent)
    IN  IF BelongsToAnother(identifier, by)
        THEN answer(403, "none", FALSE) /\ NothingStored
        ELSE IF action = "draft"
        THEN IF SaveDraftEnds(identifier, by, draft_id) = "NostrKeyError"
             THEN answer(500, "NostrKeyError", FALSE) /\ NothingStored
             ELSE /\ drafts' = save_draft(identifier, form, by, draft_id)
                  /\ answer(303, "none", FALSE)
                  /\ UNCHANGED <<essays, version_rows, published>>
        ELSE IF signing # "signed"
        THEN /\ answer(SigningStatus(signing),
                       IF signing = "failed" THEN "SignerError" ELSE "none", FALSE)
             /\ NothingStored
        ELSE /\ EssayService_publish(identifier, by, form.title, form.summary,
                                     form.content)
             \* mark_draft_published and delete_draft
             /\ drafts' = IF get_draft(draft_id) # << >>
                          THEN [drafts EXCEPT ![draft_id].deleted = TRUE]
                          ELSE drafts
             /\ answer(303, "none", TRUE)

(* POST /drafts/save *)
save_draft_route(by, identifier, form, draft_id) ==
    LET answer(status, raised) ==
            Answer("save_draft", by, identifier, draft_id, << >>, status, raised, FALSE)
        ends == SaveDraftEnds(identifier, by, draft_id)
    IN  IF ends = "PermissionError" THEN answer(403, "none") /\ NothingStored
        ELSE IF ends = "NostrKeyError"
        THEN answer(500, "NostrKeyError") /\ NothingStored
        ELSE /\ drafts' = save_draft(identifier, form, by, draft_id)
             /\ answer(303, "none")
             /\ UNCHANGED <<essays, version_rows, published>>

(* POST /drafts/{draft_id}/publish *)
publish_draft(by, draft_id, signing) ==
    LET draft == get_draft(draft_id)
        answer(status, raised, sent) ==
            Answer("publish_draft", by,
                   IF draft = << >> THEN "" ELSE draft[1].identifier,
                   draft_id, << >>, status, raised, sent)
    IN  IF draft = << >> THEN answer(404, "none", FALSE) /\ NothingStored
        ELSE IF BelongsToAnother(draft[1].identifier, by)
        THEN answer(403, "none", FALSE) /\ NothingStored
        ELSE IF signing # "signed"
        THEN /\ answer(SigningStatus(signing),
                       IF signing = "failed" THEN "SignerError" ELSE "none", FALSE)
             /\ NothingStored
        ELSE /\ EssayService_publish(draft[1].identifier, by, draft[1].title,
                                     draft[1].summary, draft[1].content)
             \* mark_draft_published
             /\ drafts' = [drafts EXCEPT ![draft_id].published_event_id =
                              <<EssayEvent(by, draft[1].identifier, draft[1].title,
                                           draft[1].summary, draft[1].content,
                                           prepare_publication(draft[1].identifier))>>]
             /\ answer(303, "none", TRUE)

(* find_version_by_event_id *)
find_version_by_event_id(event_id) ==
    LET found == SelectSeq(version_rows, LAMBDA row : row.event_id = event_id)
    IN  IF found = << >> THEN << >> ELSE <<found[1]>>

(* POST /history/{identifier}/revisions/{event_id}/revert *)
revert_revision(by, identifier, event_id, signing) ==
    LET target == find_version_by_event_id(event_id)
        answer(status, raised, sent) ==
            Answer("revert", by, identifier, 0, <<event_id>>, status, raised, sent)
    IN  IF target = << >> \/ essays[target[1].essay].author_pubkey # by
        THEN answer(404, "none", FALSE) /\ NothingStored
        ELSE IF BelongsToAnother(identifier, by)
        THEN answer(500, "PermissionError", FALSE) /\ NothingStored
        ELSE IF signing # "signed"
        THEN /\ answer(SigningStatus(signing),
                       IF signing = "failed" THEN "SignerError" ELSE "none", FALSE)
             /\ NothingStored
        ELSE /\ EssayService_publish(identifier, by, essays[target[1].essay].title,
                                     target[1].summary, target[1].content)
             /\ answer(303, "none", TRUE)
             /\ UNCHANGED drafts

(* GET /editor?d=identifier *)
editor(by, d) ==
    /\ IF find_essay_by_identifier(d) # << >> /\ essays[d].author_pubkey # by
       THEN Answer("editor", by, d, 0, << >>, 403, "none", FALSE)
       ELSE Answer("editor", by, d, 0, << >>, 200, "none", FALSE)
    /\ NothingStored

restVars == <<clientVars, failRun, lastFailAt, eventVars, commentVars, engageVars,
              essay_versions, outcome>>

(* the draft ids a form may carry: none, or the id of a row *)
DraftIds == {0} \cup DOMAIN drafts

PublishForm(scope, actions, maxVersions) ==
    /\ Len(version_rows) < maxVersions
    /\ Len(drafts) < MaxDrafts
    /\ \E by \in scope.users, identifier \in scope.identifiers,
          form \in scope.forms, action \in actions, draft_id \in DraftIds,
          signing \in Signings :
          publish(by, identifier, form, action, draft_id, signing)
    /\ UNCHANGED restVars

SaveDraft(scope) ==
    /\ Len(drafts) < MaxDrafts
    /\ \E by \in scope.users, identifier \in scope.identifiers,
          form \in scope.forms, draft_id \in DraftIds :
          save_draft_route(by, identifier, form, draft_id)
    /\ UNCHANGED restVars

PublishDraft(scope, maxVersions) ==
    /\ Len(version_rows) < maxVersions
    /\ \E by \in scope.users, draft_id \in 1 .. Len(drafts) + 1,
          signing \in Signings :
          publish_draft(by, draft_id, signing)
    /\ UNCHANGED restVars

(* the id of an event that is no version of any essay *)
AbsentEvent == compute_event_id(<< >>)

Revert(scope, maxVersions) ==
    /\ Len(version_rows) < maxVersions
    /\ \E by \in scope.users, identifier \in scope.identifiers,
          signing \in Signings,
          event_id \in { version_rows[i].event_id : i \in DOMAIN version_rows }
                       \cup {AbsentEvent} :
          revert_revision(by, identifier, event_id, signing)
    /\ UNCHANGED restVars

OpenEditor(scope) ==
    /\ \E by \in scope.users, d \in scope.identifiers : editor(by, d)
    /\ UNCHANGED restVars

(* SpecRevise: two users publish, revert and open the editor, for two       *)
(* identifiers, in any order                                                *)
NextY ==
    \/ PublishForm(Everyone, {"publish"}, MaxVersions)
    \/ Revert(Everyone, MaxVersions)
    \/ OpenEditor(Everyone)

SpecRevise == Init /\ [][NextY]_vars

(* SpecDrafts: two users save drafts for one identifier and publish drafts; *)
(* an essay of the identifier may come to exist                             *)
OneIdentifier ==
    [users |-> PubKeys, identifiers |-> {"I"},
     forms |-> { form \in Forms : form.title = "T1" }]

NextD ==
    \/ SaveDraft(OneIdentifier)
    \/ PublishDraft(OneIdentifier, MaxVersionsD)
    \/ PublishForm(OneIdentifier, {"publish", "draft"}, MaxVersionsD)

SpecDrafts == Init /\ [][NextD]_vars

(* SpecVersions: the author of one identifier publishes, publishes drafts   *)
(* and reverts, again and again                                             *)
OneAuthor == [users |-> {"pkA"}, identifiers |-> {"I"}, forms |-> Forms]

NextU ==
    \/ PublishForm(OneAuthor, {"publish", "draft"}, MaxVersionsV)
    \/ PublishDraft(OneAuthor, MaxVersionsV)
    \/ Revert(OneAuthor, MaxVersionsV)

SpecVersions == Init /\ [][NextU]_vars

----------------------------------------------------------------------------
(* Claims about essays and drafts *)

(* the step is a request to an essay or draft route *)
Requested(ops) == essayVars' # essayVars /\ request'.op \in ops

StoredUnchanged == UNCHANGED <<essays, version_rows, drafts>>

(* C23: a publish-draft request for a draft from a signing session whose    *)
(* pubkey is not the draft's author_pubkey is answered 403 or 404, creates  *)
(* no essay and no essay version, sends nothing to relays and leaves the    *)
(* draft not marked as published.                                           *)
C23_OnlyOwnerPublishesDraft ==
    [][(/\ Requested({"publish_draft"})
        /\ get_draft(request'.draft_id) # << >>
        /\ get_draft(request'.draft_id)[1].author_pubkey # request'.by)
       => /\ request'.status \in {403, 404}
          /\ essays' = essays
          /\ version_rows' = version_rows
          /\ ~request'.sent
          /\ drafts'[request'.draft_id].published_event_id
                = drafts[request'.draft_id].published_event_id
      ]_vars

(* C25: a draft save with an identifier that a saved draft of another       *)
(* author carries is answered 403 and stores no draft.                      *)
C25_DraftIdentifierOwned ==
    [][(/\ Requested({"save_draft"})
        /\ \E id \in DOMAIN drafts :
              /\ ~drafts[id].deleted
              /\ drafts[id].identifier = request'.identifier
              /\ drafts[id].author_pubkey # request'.by)
       => /\ request'.status = 403
          /\ drafts' = drafts
      ]_vars

(* C24: once an essay of an identifier exists, a publish, an editor open or *)
(* a revert for that identifier by a session with another pubkey is         *)
(* answered 403 (revert: 403 or 404) and changes no essay, no version and   *)
(* no draft; and the author of the essay stays its author, so that the      *)
(* author's own requests are not refused.                                   *)
C24_OnlyAuthorRevises ==
    [][/\ (/\ Requested({"publish", "editor", "revert"})
           /\ essays[request'.identifier] # NoEssay
           /\ essays[request'.identifier].author_pubkey # request'.by)
          => /\ request'.status \in
                   (IF request'.op = "revert" THEN {403, 404} ELSE {403})
             /\ StoredUnchanged
             /\ ~request'.sent
       /\ \A identifier \in Identifiers :
             essays[identifier] # NoEssay =>
                 essays'[identifier].author_pubkey = essays[identifier].author_pubkey
      ]_vars

(* the versions of the identifier are numbered 1, 2, 3, ..., each after the *)
(* first supersedes the one before it, and the essay points at the newest   *)
NumberedInOrder(identifier) ==
    LET rows == VersionsOf(identifier)
    IN  /\ \A i \in DOMAIN rows :
              /\ rows[i].version = i
              /\ rows[i].status = "published"
              /\ rows[i].supersedes_event_id =
                    IF i = 1 THEN << >> ELSE <<rows[i - 1].event_id>>
        /\ \A i, j \in DOMAIN rows : i # j => rows[i].event_id # rows[j].event_id
        /\ rows = << >> <=> essays[identifier] = NoEssay
        /\ rows # << >> =>
              /\ essays[identifier].latest_version = Len(rows)
              /\ essays[identifier].latest_event_id = <<rows[Len(rows)].event_id>>

----------------------------------------------------------------------------
(* hydrate_from_relays, suspension point by suspension point: the call      *)
(* copies and resets _likes and _zaps (lines 137-141) and waits for         *)
(* fetch_events (145); when the events arrive it counts them into _likes    *)
(* and _zaps as they are by then (146-172) and merges its copy of the likes *)
(* back (174-175).  Other calls and toggle_like run while it waits.         *)

MaxHydrating == 2       \* hydrate_from_relays calls waiting at the same time

hydrate_begin ==
    /\ hydrating' = Append(hydrating, [existing_likes |-> likes])
    /\ likes' = {}
    /\ zaps' = [count |-> 0, sats |-> 0]

Without(s, k) == [i \in 1 .. Len(s) - 1 |-> IF i < k THEN s[i] ELSE s[i + 1]]

hydrate_end(k, got_events) ==
    LET events == IF got_events THEN relay_receipts ELSE << >>
        counted == CountEvents([likes |-> likes, count |-> zaps.count,
                                sats |-> zaps.sats, raised |-> "none"], events)
    IN  /\ likes' = IF counted.raised = "none"
                    THEN counted.likes \cup hydrating[k].existing_likes
                    ELSE counted.likes
        /\ zaps' = [count |-> counted.count, sats |-> counted.sats]
        /\ hydrating' = Without(hydrating, k)
        /\ outcome' = Ended("hydrate_from_relays", "", counted.raised)

HydrateBegin ==
    /\ Len(hydrating) < MaxHydrating
    /\ hydrate_begin
    /\ UNCHANGED <<relay_receipts, writeVars, commentVars, clientVars, failRun,
                   lastFailAt, eventVars, essayVars>>

HydrateEnd ==
    /\ \E k \in DOMAIN hydrating : hydrate_end(k, TRUE)
    /\ UNCHANGED <<relay_receipts, essay_versions, published, commentVars,
                   clientVars, failRun, lastFailAt, eventVars, essayVars>>

(* SpecHydrate: the relays hold up to two verified receipts, a reaction or  *)
(* a zap receipt; then hydrations run, one after another or overlapping,    *)
(* and the viewer toggles the like                                          *)
HeldReceipts ==
    { sign_event("skA", draft) :
        draft \in [pubkey : {"pkA"}, created_at : {"1"}, kind : {"7", "9735"},
                   tags : {<<"e:X", "amount:2500">>}, content : {""}] }

NextH ==
    \/ (outcome = NoOutcome /\ hydrating = << >>) /\ RelaySendsReceipt(HeldReceipts, 2)
    \/ HydrateBegin
    \/ HydrateEnd
    \/ ToggleLike({"local"})

SpecHydrate == Init /\ [][NextH]_vars

(* the counts one hydration of the relay contents gives *)
SingleHydration ==
    LET counted == CountEvents([likes |-> {}, count |-> 0, sats |-> 0,
                                raised |-> "none"], relay_receipts)
    IN  [count |-> counted.count, sats |-> counted.sats]

(* C27: when a hydrate_from_relays call ends and no other is under way,     *)
(* zap_count and total_sats are those of a single hydration of the relay    *)
(* contents, however many calls ran before and however they overlapped;     *)
(* and the likes recorded locally before the call or while it ran are       *)
(* still there.                                                             *)
C27_HydrationRebuilds ==
    [][Len(hydrating') < Len(hydrating) =>
          /\ hydrating' = << >> => zaps' = SingleHydration
          /\ likes \subseteq likes'
          /\ \A k \in DOMAIN hydrating :
                hydrating' = Without(hydrating, k) =>
                    hydrating[k].existing_likes \subseteq likes'
      ]_vars

----------------------------------------------------------------------------
(* the tasks that call websockets.connect in this step *)
Connects(c, i) ==
    /\ c \in DOMAIN calls' /\ i \in DOMAIN calls[c].tasks
    /\ i \in DOMAIN calls'[c].tasks
    /\ calls'[c].tasks[i].relay = calls[c].tasks[i].relay
    /\ calls'[c].tasks[i].conns = calls[c].tasks[i].conns + 1

(* C28: in every interleaving of publish and fetchEvents calls on one       *)
(* client, a step in which a task opens a connection to a relay is taken    *)
(* at a moment when that relay is not on cooldown; this includes a task     *)
(* that waited for the semaphore while another task's failure put the       *)
(* relay on cooldown.                                                       *)
C28_NoConnectionOnCooldown ==
    [][\A c \in DOMAIN calls, i \in TaskIds :
          Connects(c, i) => ~is_on_cooldown(RelayOf(c, i))]_vars

----------------------------------------------------------------------------
(* the lists of the forest that name the comment c: the roots, or the       *)
(* replies of a comment of the forest                                       *)
ListedBy(c) ==
    { p \in InForest : c \in Range(thread.nodes[p].replies) }

ListedOnce(c) ==
    \/ /\ Times(c, thread.roots) = 1
       /\ ListedBy(c) = {}
    \/ /\ Times(c, thread.roots) = 0
       /\ \E p \in InForest :
             /\ ListedBy(c) = {p}
             /\ Times(c, thread.nodes[p].replies) = 1

(* C29: every merged comment whose author the viewer has not blocked is in  *)
(* the forest fetch_comments_for_essay builds exactly once, as a root or in *)
(* one replies list reachable from a root; this holds for a reply whose     *)
(* parent is not among the merged comments, for a reply to a comment by a   *)
(* blocked author, and for comments whose reply tags form a cycle.          *)
C29_EveryCommentOnce ==
    FreshlyBuilt =>
        \A i \in DOMAIN built.events :
            built.events[i].pubkey \notin built.blocked =>
                /\ built.events[i].id \in InForest
                /\ ListedOnce(built.events[i].id)

----------------------------------------------------------------------------
(* SpecKeys: one relay consulted for each read, and callers that pass the   *)
(* same two relays in either order, with either of two filter lists         *)
MaxCallsK == 3       \* calls made in one behaviour (SpecKeys)

RelayListsK == { <<"r1", "r2">>, <<"r2", "r1">> }

PublishK ==
    \E relays \in RelayListsK :
        CanCall(MaxCallsK, Callers) /\ publish_event(relays)

FetchK ==
    \E filters \in FilterListsC, relays \in RelayListsK :
        CanCall(MaxCallsK, Callers) /\ fetch_events(filters, relays)

NextK == PublishK \/ FetchK \/ Return \/ TaskStepOk

SpecKeys == InitC /\ [][NextK]_vars

(* the fetch_events call made in this step is served from the cache *)
ServedFromCache(c) ==
    /\ c = Len(calls) + 1
    /\ Len(calls') = c
    /\ calls'[c].kind = "fetch"
    /\ calls'[c].hit

(* C30: a fetchEvents call served from the cache gets a result that was     *)
(* gathered for the same filters and from the relays the call would itself  *)
(* have targeted, the first max_relays_for_reads distinct entries of its    *)
(* relay list; calls whose lists hold the same relays in an order that      *)
(* changes those entries, or whose filter lists differ, share no entry.     *)
C30_HitFromOwnTargets ==
    [][\A c \in 1 .. MaxCallsK + 1 :
          ServedFromCache(c) =>
              LET entry == store[calls'[c].key]
              IN  /\ entry.filters = calls'[c].filters
                  /\ entry.targets = Targets(calls'[c].relays, max_reads)]_vars

====
